---- MODULE Spec2Model ----
(***************************************************************************)
(* Model of the Odoo MCP server's search tool:                             *)
(*   - the structured-query-to-domain compiler convertQueryToDomain        *)
(*     (src/app/utils/tools/odoo/crud_operations/smart_search.ts),         *)
(*   - the two search entry points built on it (smart_search.execute and   *)
(*     smartSearch), with the remote calls they issue.                     *)
(*                                                                         *)
(* Representation.  A condition is a record [field, operator, value]; a    *)
(* JSON value is denoted by its JSON text ("false", "186").  A domain is   *)
(* a sequence of tokens: a marker string of the wire format ("|", "!") is  *)
(* [kind |-> "marker", sym |-> s], an inner array [field, operator, value] *)
(* is [kind |-> "tuple", field, operator, value].                          *)
(***************************************************************************)
EXTENDS Integers, Sequences, FiniteSets

VARIABLES
    query,      \* Spec: the argument of convertQueryToDomain
    domain,     \* Spec: the array it returned
    phase,      \* Spec: "input" before the call, "compiled" after it
    sVariant,   \* SearchSpec: "tool" (smart_search.execute) or "mcp" (smartSearch)
    sInput,     \* SearchSpec: the validated input object of the call
    sPc,        \* SearchSpec: where the async function stands
    sDomain,    \* SearchSpec: its local `domain`
    sTotal,     \* SearchSpec: its local `totalCount`
    sCalls,     \* SearchSpec: the remote calls issued so far, in order
    sResult,    \* SearchSpec: the value the function returned (or the error thrown)
    sOutcomes,  \* SearchSpec: how each remote call ended, in order
    cQuery,     \* CallersSpec: per caller, the argument of its running call
    cPc,        \* CallersSpec: per caller, the statement its call stands at
    cI,         \* CallersSpec: per caller, the loop index of its call
    cells,      \* CallersSpec: the `domain` arrays, by the cell that holds them
    returns,    \* CallersSpec: the (query, output) pairs of the finished calls
    nCalls,     \* CallersSpec: calls started so far
    dVariant,   \* DeleteSpec: "tool" (delete_record.execute) or "mcp" (deleteRecord)
    dInput,     \* DeleteSpec: the input object of the running or last call
    dPc,        \* DeleteSpec: where the async function stands
    dDetails,   \* DeleteSpec: its local `recordDetails`
    dCalls,     \* DeleteSpec: the remote calls this call issued, in order
    dResult,    \* DeleteSpec: the value the function returned
    dStore,     \* DeleteSpec: the record ids that exist in the remote system
    dLog,       \* DeleteSpec: every remote call issued, with the `confirmation` its tool call carried
    nDeletes,   \* DeleteSpec: tool calls started so far
    rRoute,     \* RouteSpec: the route handler that runs
    rEnvKey,    \* RouteSpec: process.env.KNOWLEDGE_API_KEY
    rHeader,    \* RouteSpec: the request's x-api-key header
    rBody,      \* RouteSpec: the request body
    rPc,        \* RouteSpec: where the handler stands
    rBodyRead,  \* RouteSpec: whether request.json() was called
    rActions,   \* RouteSpec: the server actions invoked, in order
    rResponse,  \* RouteSpec: the response returned
    kResources, \* KnowSpec: the resources table
    kEmbeddings, \* KnowSpec: the embeddings table, by resource_id
    kUsed,      \* KnowSpec: the resource ids handed out so far
    kOp,        \* KnowSpec: the server action that runs and its arguments
    kSteps,     \* KnowSpec: the awaited calls the action still has to make
    kPc,        \* KnowSpec: where the action stands
    kVectors,   \* KnowSpec: the vectors generateEmbeddings answered
    kResult,    \* KnowSpec: what the action returned
    kBefore,    \* KnowSpec: the tables when the action started
    ksTable,    \* KSearchSpec: the embedding rows, ranked by similarity to the query
    ksInput,    \* KSearchSpec: the input of the searchKnowledge tool call
    ksPc,       \* KSearchSpec: where the search stands
    ksRequested, \* KSearchSpec: the limit passed to the vector search
    ksAnswer,   \* KSearchSpec: what the vector search answered
    ksResult,   \* KSearchSpec: what searchKnowledgeAction returned
    ksTool,     \* KSearchSpec: the JSON text the tool returned
    mPc,        \* McpSpec: where the MCP route handler stands
    mNext,      \* McpSpec: the server.tool call the initializer makes next
    mTools,     \* McpSpec: the tool names registered on the server
    mRequests,  \* McpSpec: the client requests answered so far, with their answers
    xGroup,     \* ComplexSpec: the query group passed to convertComplexQueryToDomain
    xDomain,    \* ComplexSpec: the domain it returned
    xPhase,     \* ComplexSpec: input, or compiled once it returned
    pInput,     \* PairSpec: the input both variants are called with
    pRun,       \* PairSpec: each variant's position, compiled domain, count, remote calls and result
    pResponses, \* PairSpec: the remote responses and failures both variants received
    bState,     \* BreakerSpec: CircuitBreaker.state
    bFailures,  \* BreakerSpec: CircuitBreaker.failures
    bLastFailureTime, \* BreakerSpec: CircuitBreaker.lastFailureTime
    bNow,       \* BreakerSpec: Date.now(), in ticks of half a timeout
    bCalls,     \* BreakerSpec: each caller's execute call on the shared breaker
    bHealthy,   \* BreakerSpec: whether the wrapped function has stopped failing
    wOptions,   \* RetrySpec: the options withRetry is called with
    wAttempt,   \* RetrySpec: the loop variable attempt
    wPc,        \* RetrySpec: where the call of withRetry stands
    wLog,       \* RetrySpec: the calls of fn, of onRetry and of setTimeout made so far, in order
    wOutcomes,  \* RetrySpec: how each call of fn ended
    wLastError, \* RetrySpec: the variable lastError
    wResult,    \* RetrySpec: what the promise of withRetry settled with
    tText,      \* ChunkSpec: the argument text, a sequence of characters
    tMaxChunkSize, \* ChunkSpec: the argument maxChunkSize
    tOverlapSize, \* ChunkSpec: the argument overlapSize
    tPc,        \* ChunkSpec: where the call of chunkText stands
    tStartIndex, \* ChunkSpec: the variable startIndex
    tEndIndex,  \* ChunkSpec: endIndex of the last iteration
    tChunks,    \* ChunkSpec: the array chunks
    cResources, \* ConcSpec: the resources table
    cEmbeddings, \* ConcSpec: the embeddings table, the rows of each resource_id
    cUsed,      \* ConcSpec: the ids the resources table has given out
    cRuns       \* ConcSpec: each caller's running server action

compVars == <<query, domain, phase>>

searchVars ==
    <<sVariant, sInput, sPc, sDomain, sTotal, sCalls, sResult, sOutcomes>>

callerVars == <<cQuery, cPc, cI, cells, returns, nCalls>>

deleteVars ==
    <<dVariant, dInput, dPc, dDetails, dCalls, dResult, dStore, dLog, nDeletes>>

routeVars ==
    <<rRoute, rEnvKey, rHeader, rBody, rPc, rBodyRead, rActions, rResponse>>

knowVars ==
    <<kResources, kEmbeddings, kUsed, kOp, kSteps, kPc, kVectors, kResult, kBefore>>

kSearchVars ==
    <<ksTable, ksInput, ksPc, ksRequested, ksAnswer, ksResult, ksTool>>

mcpVars ==
    <<mPc, mNext, mTools, mRequests>>

complexVars ==
    <<xGroup, xDomain, xPhase>>

pairVars ==
    <<pInput, pRun, pResponses>>

breakerVars ==
    <<bState, bFailures, bLastFailureTime, bNow, bCalls, bHealthy>>

retryVars ==
    <<wOptions, wAttempt, wPc, wLog, wOutcomes, wLastError, wResult>>

chunkVars ==
    <<tText, tMaxChunkSize, tOverlapSize, tPc, tStartIndex, tEndIndex, tChunks>>

concVars ==
    <<cResources, cEmbeddings, cUsed, cRuns>>

vars == <<compVars, searchVars, callerVars, deleteVars, routeVars, knowVars, kSearchVars, mcpVars, complexVars, pairVars, breakerVars, retryVars, chunkVars, concVars>>

\* what the actions of one component leave alone
exceptComp == <<searchVars, callerVars, deleteVars, routeVars, knowVars, kSearchVars, mcpVars, complexVars, pairVars, breakerVars, retryVars, chunkVars, concVars>>

exceptSearch == <<compVars, callerVars, deleteVars, routeVars, knowVars, kSearchVars, mcpVars, complexVars, pairVars, breakerVars, retryVars, chunkVars, concVars>>

exceptCallers == <<compVars, searchVars, deleteVars, routeVars, knowVars, kSearchVars, mcpVars, complexVars, pairVars, breakerVars, retryVars, chunkVars, concVars>>

exceptDelete == <<compVars, searchVars, callerVars, routeVars, knowVars, kSearchVars, mcpVars, complexVars, pairVars, breakerVars, retryVars, chunkVars, concVars>>

exceptRoute == <<compVars, searchVars, callerVars, deleteVars, knowVars, kSearchVars, mcpVars, complexVars, pairVars, breakerVars, retryVars, chunkVars, concVars>>

exceptKnow == <<compVars, searchVars, callerVars, deleteVars, routeVars, kSearchVars, mcpVars, complexVars, pairVars, breakerVars, retryVars, chunkVars, concVars>>

exceptKSearch == <<compVars, searchVars, callerVars, deleteVars, routeVars, knowVars, mcpVars, complexVars, pairVars, breakerVars, retryVars, chunkVars, concVars>>

exceptMcp == <<compVars, searchVars, callerVars, deleteVars, routeVars, knowVars, kSearchVars, complexVars, pairVars, breakerVars, retryVars, chunkVars, concVars>>

exceptComplex == <<compVars, searchVars, callerVars, deleteVars, routeVars, knowVars, kSearchVars, mcpVars, pairVars, breakerVars, retryVars, chunkVars, concVars>>

exceptPair == <<compVars, searchVars, callerVars, deleteVars, routeVars, knowVars, kSearchVars, mcpVars, complexVars, breakerVars, retryVars, chunkVars, concVars>>

exceptBreaker == <<compVars, searchVars, callerVars, deleteVars, routeVars, knowVars, kSearchVars, mcpVars, complexVars, pairVars, retryVars, chunkVars, concVars>>

exceptRetry == <<compVars, searchVars, callerVars, deleteVars, routeVars, knowVars, kSearchVars, mcpVars, complexVars, pairVars, breakerVars, chunkVars, concVars>>

exceptChunk == <<compVars, searchVars, callerVars, deleteVars, routeVars, knowVars, kSearchVars, mcpVars, complexVars, pairVars, breakerVars, retryVars, concVars>>

exceptConc == <<compVars, searchVars, callerVars, deleteVars, routeVars, knowVars, kSearchVars, mcpVars, complexVars, pairVars, breakerVars, retryVars, chunkVars>>

(***************************************************************************)
(* Bounds and input sets                                                   *)
(***************************************************************************)
MaxConds == 3

\* longest conditions array of a search call
MaxSearchConds == 2

\* calls of the compiler that concurrent callers start in all, and the
\* longest conditions array they pass
MaxCalls == 3

MaxCallerConds == 2

\* delete tool calls made one after the other
MaxDeleteCalls == 2

Logics == {"AND", "OR", "NOT"}

\* Leaf conditions the inputs are drawn from: the examples of knowledge.md
\* (email = false, country_id = 186 / 38) and a negated comparison.
Conditions ==
    { [field |-> "email",      operator |-> "=",  value |-> "false"],
      [field |-> "email",      operator |-> "!=", value |-> "false"],
      [field |-> "country_id", operator |-> "=",  value |-> "186"],
      [field |-> "country_id", operator |-> "=",  value |-> "38"] }

SeqsUpTo(S, n) == UNION { [1..k -> S] : k \in 0..n }

\* A query object.  hasConditions = FALSE is a query whose `conditions` key
\* is absent (undefined); its conditions field is then the empty sequence.
Queries ==
    { [logic |-> l, hasConditions |-> TRUE, conditions |-> cs] :
        l \in Logics, cs \in SeqsUpTo(Conditions, MaxConds) }
    \cup
    { [logic |-> l, hasConditions |-> FALSE, conditions |-> << >>] :
        l \in Logics }

(***************************************************************************)
(* convertQueryToDomain                                                    *)
(***************************************************************************)
Marker(s) == [kind |-> "marker", sym |-> s]

\* object.name, "undefined" when the object has no such property
Get(object, name) == IF name \in DOMAIN object THEN object[name] ELSE "undefined"

\* (variant: a condition lacking a component is refused)
TupleOfCompleteOnly(c) ==
    IF {"field", "operator", "value"} \subseteq DOMAIN c
    THEN [kind |-> "tuple", field |-> c.field, operator |-> c.operator,
          value |-> c.value]
    ELSE [kind |-> "error", field |-> "", operator |-> "", value |-> ""]

\* [condition.field, condition.operator, condition.value]
Tuple(c) ==
    [kind |-> "tuple", field |-> Get(c, "field"),
     operator |-> Get(c, "operator"), value |-> Get(c, "value")]

\* leaf conditions lacking field, operator or value
IncompleteConditions ==
    { [operator |-> "=", value |-> "186"],
      [field |-> "country_id", value |-> "186"],
      [field |-> "country_id", operator |-> "="] }

IsComplete(c) == {"field", "operator", "value"} \subseteq DOMAIN c

\* query objects with at least one incomplete leaf condition
LooseQueries ==
    { [logic |-> l, hasConditions |-> TRUE, conditions |-> cs] :
        l \in Logics,
        cs \in { s \in SeqsUpTo(IncompleteConditions
                                   \cup { c \in Conditions : c.field = "email" },
                                 MaxConds) :
                    \E i \in 1..Len(s) : ~IsComplete(s[i]) } }

\* (variant: the loop runs to conditions.length, one marker per condition)
OrMarkersPerCondition(n) == [i \in 1..n |-> Marker("|")]

\* (variant: a single '|' whatever the number of conditions)
OrMarkersSingle(n) == << Marker("|") >>

\* for (let i = 0; i < conditions.length - 1; i++) domain.push('|')
OrMarkers(n) == [i \in 1..(n - 1) |-> Marker("|")]

\* (variant: AND written with the grammar's explicit '&' markers)
LogicPrefixExplicitAnd(logic, n) ==
    IF logic = "OR" THEN OrMarkers(n)
    ELSE IF logic = "NOT" THEN << Marker("!") >>
    ELSE [i \in 1..(n - 1) |-> Marker("&")]

\* the if / else-if on `logic`; AND pushes nothing
LogicPrefix(logic, n) ==
    IF logic = "OR" THEN OrMarkers(n)
    ELSE IF logic = "NOT" THEN << Marker("!") >>
    ELSE << >>

\* (variant: unshift instead of push, the tuples come out in reverse order)
ConditionTuplesReversed(conditions) ==
    [i \in 1..Len(conditions) |-> Tuple(conditions[Len(conditions) + 1 - i])]

\* conditions.forEach(condition => domain.push([...]))
ConditionTuples(conditions) ==
    [i \in 1..Len(conditions) |-> Tuple(conditions[i])]

\* (variant: no single-condition early return)
convertWithoutSingleBranch(q) ==
    IF ~q.hasConditions \/ Len(q.conditions) = 0
    THEN << >>
    ELSE LogicPrefix(q.logic, Len(q.conditions)) \o ConditionTuples(q.conditions)

\* (variant: no empty-conditions early return, the general code runs)
convertWithoutEmptyBranch(q) ==
    IF Len(q.conditions) = 1
    THEN << Tuple(q.conditions[1]) >>
    ELSE LogicPrefix(q.logic, Len(q.conditions)) \o ConditionTuples(q.conditions)

convertQueryToDomain(q) ==
    IF ~q.hasConditions \/ Len(q.conditions) = 0
    THEN << >>
    ELSE IF Len(q.conditions) = 1
    THEN << Tuple(q.conditions[1]) >>
    ELSE LogicPrefix(q.logic, Len(q.conditions)) \o ConditionTuples(q.conditions)

(***************************************************************************)
(* The target system's filter grammar (spec.md section 3 and 4.1): prefix  *)
(* notation, "|" combines the next two expressions, "!" negates the next   *)
(* expression, the expressions left at top level are AND-ed.               *)
(* truth maps each leaf condition to whether a given record satisfies it.  *)
(***************************************************************************)
TruthAssignments == [Conditions -> BOOLEAN]

LeafOf(t) == [field |-> t.field, operator |-> t.operator, value |-> t.value]

RECURSIVE EvalExpr(_, _, _)
\* the expression starting at token i: [ok, val, next]; ok is FALSE when an
\* operator lacks an operand
EvalExpr(d, i, truth) ==
    IF i > Len(d)
    THEN [ok |-> FALSE, val |-> FALSE, next |-> i]
    ELSE IF d[i].kind = "tuple"
    THEN [ok |-> TRUE, val |-> truth[LeafOf(d[i])], next |-> i + 1]
    ELSE IF d[i].sym = "!"
    THEN LET a == EvalExpr(d, i + 1, truth)
         IN  [ok |-> a.ok, val |-> ~a.val, next |-> a.next]
    ELSE LET a == EvalExpr(d, i + 1, truth)
             b == EvalExpr(d, a.next, truth)
         IN  [ok   |-> a.ok /\ b.ok,
              val  |-> IF d[i].sym = "|" THEN a.val \/ b.val ELSE a.val /\ b.val,
              next |-> b.next]

RECURSIVE EvalFrom(_, _, _)
\* the implicit AND of the expressions from token i to the end
EvalFrom(d, i, truth) ==
    IF i > Len(d)
    THEN [ok |-> TRUE, val |-> TRUE]
    ELSE LET a == EvalExpr(d, i, truth)
             r == IF a.ok THEN EvalFrom(d, a.next, truth)
                  ELSE [ok |-> FALSE, val |-> FALSE]
         IN  [ok |-> a.ok /\ r.ok, val |-> a.val /\ r.val]

WellFormed(d) == \A truth \in TruthAssignments : EvalFrom(d, 1, truth).ok

Matches(d, truth) == EvalFrom(d, 1, truth).val

(***************************************************************************)
(* convertQueryToDomain statement by statement, run by several callers.    *)
(* The function is synchronous; letting the callers' statements interleave *)
(* freely covers every order in which a runtime could run their calls.     *)
(***************************************************************************)
Callers == {"caller1", "caller2"}

CallerQueries ==
    { [logic |-> l, hasConditions |-> TRUE, conditions |-> cs] :
        l \in Logics,
        cs \in SeqsUpTo({ c \in Conditions : c.value = "186" },
                        MaxCallerConds) }

NoQuery == [logic |-> "AND", hasConditions |-> FALSE, conditions |-> << >>]

\* (variant: `domain` declared once at module scope, one array for all calls)
ModuleScopeCell(c) == "caller1"

\* `const domain = []` inside the function body: each call has its own array
DomainCell(c) == c

Call(c) ==
    /\ cPc[c] = "idle"
    /\ nCalls < MaxCalls
    /\ \E q \in CallerQueries : cQuery' = [cQuery EXCEPT ![c] = q]
    /\ cPc' = [cPc EXCEPT ![c] = "entry"]
    /\ nCalls' = nCalls + 1
    /\ UNCHANGED <<cI, cells, returns>>
    /\ UNCHANGED exceptCallers

\* the two early returns, else `const domain = []`
Enter(c) ==
    /\ cPc[c] = "entry"
    /\ LET q == cQuery[c]
       IN  IF ~q.hasConditions \/ Len(q.conditions) = 0
           THEN /\ returns' = returns \cup {[query |-> q, output |-> << >>]}
                /\ cPc' = [cPc EXCEPT ![c] = "idle"]
                /\ cQuery' = [cQuery EXCEPT ![c] = NoQuery]
                /\ UNCHANGED cells
           ELSE IF Len(q.conditions) = 1
           THEN /\ returns' = returns \cup
                      {[query |-> q, output |-> << Tuple(q.conditions[1]) >>]}
                /\ cPc' = [cPc EXCEPT ![c] = "idle"]
                /\ cQuery' = [cQuery EXCEPT ![c] = NoQuery]
                /\ UNCHANGED cells
           ELSE /\ cells' = [cells EXCEPT ![DomainCell(c)] = << >>]
                /\ cPc' = [cPc EXCEPT ![c] = "markers"]
                /\ UNCHANGED <<returns, cQuery>>
    /\ cI' = [cI EXCEPT ![c] = 0]
    /\ UNCHANGED nCalls
    /\ UNCHANGED exceptCallers

\* one pass of the OR loop, or the single push of NOT, or nothing for AND
PushMarker(c) ==
    /\ cPc[c] = "markers"
    /\ LET q == cQuery[c]
           d == DomainCell(c)
       IN  IF q.logic = "OR" /\ cI[c] < Len(q.conditions) - 1
           THEN /\ cells' = [cells EXCEPT ![d] = Append(@, Marker("|"))]
                /\ cI' = [cI EXCEPT ![c] = @ + 1]
                /\ UNCHANGED cPc
           ELSE /\ cells' = IF q.logic = "NOT"
                            THEN [cells EXCEPT ![d] = Append(@, Marker("!"))]
                            ELSE cells
                /\ cI' = [cI EXCEPT ![c] = 0]
                /\ cPc' = [cPc EXCEPT ![c] = "tuples"]
    /\ UNCHANGED <<cQuery, returns, nCalls>>
    /\ UNCHANGED exceptCallers

\* one callback of conditions.forEach
PushTuple(c) ==
    /\ cPc[c] = "tuples"
    /\ cI[c] < Len(cQuery[c].conditions)
    /\ cells' = [cells EXCEPT ![DomainCell(c)] =
                    Append(@, Tuple(cQuery[c].conditions[cI[c] + 1]))]
    /\ cI' = [cI EXCEPT ![c] = @ + 1]
    /\ UNCHANGED <<cQuery, cPc, returns, nCalls>>
    /\ UNCHANGED exceptCallers

\* return domain; the call's locals are gone and its array is the output
Return(c) ==
    /\ cPc[c] = "tuples"
    /\ cI[c] = Len(cQuery[c].conditions)
    /\ returns' = returns \cup
           {[query |-> cQuery[c], output |-> cells[DomainCell(c)]]}
    /\ cPc' = [cPc EXCEPT ![c] = "idle"]
    /\ cQuery' = [cQuery EXCEPT ![c] = NoQuery]
    /\ cI' = [cI EXCEPT ![c] = 0]
    /\ cells' = [cells EXCEPT ![DomainCell(c)] = << >>]
    /\ UNCHANGED nCalls
    /\ UNCHANGED exceptCallers

CallersIdle ==
    /\ cQuery = [c \in Callers |-> NoQuery]
    /\ cPc = [c \in Callers |-> "idle"]
    /\ cI = [c \in Callers |-> 0]
    /\ cells = [c \in Callers |-> << >>]
    /\ returns = {}
    /\ nCalls = 0


(***************************************************************************)
(* The search entry points: smart_search.execute and smartSearch           *)
(***************************************************************************)
NoResult == [returned |-> FALSE]

Models == {"res.partner"}

SearchQueries ==
    { [logic |-> l, hasConditions |-> TRUE, conditions |-> cs] :
        l \in Logics,
        cs \in SeqsUpTo({ c \in Conditions : c.field = "country_id" },
                        MaxSearchConds) }
    \cup
    { [logic |-> l, hasConditions |-> FALSE, conditions |-> << >>] :
        l \in Logics }

\* fields_to_return is optional: hasFields = FALSE is the omitted list
FieldLists ==
    { [hasFields |-> FALSE, list |-> << >>],
      [hasFields |-> TRUE,  list |-> << >>],
      [hasFields |-> TRUE,  list |-> << "name" >>],
      [hasFields |-> TRUE,  list |-> << "name", "email" >>] }

\* limit: 1..100, default 20; offset: >= 0, default 0
Limits == {1, 20}

Offsets == {0, 5}

SearchInputs ==
    [model : Models, query : SearchQueries, fields_to_return : FieldLists,
     limit : Limits, offset : Offsets, count_only : BOOLEAN]

\* what the remote system may answer to search_count
Counts == {0, 7}

\* what it may answer to search_read: an array of records, or null
ReadAnswers ==
    { [isArray |-> FALSE, rows |-> << >>],
      [isArray |-> TRUE,  rows |-> << >>],
      [isArray |-> TRUE,  rows |-> << "rec1", "rec2" >>] }

\* the messages of the errors OdooJsonRpcClient.call throws
CallErrors ==
    { "JSON-RPC call failed: Odoo Error", "JSON-RPC call failed: Unknown error" }

NoConditionsMessage ==
    "No conditions provided. Please specify at least one condition."

\* JSON.stringify of an array element: undefined is written as null
JsonElement(value) == IF value = "undefined" THEN "null" ELSE value

\* JSON.stringify(payload): a string, denoted by the value it parses back to;
\* an undefined component of a domain tuple is written as null
Stringify(payload) ==
    [json |->
        IF "domain" \in DOMAIN payload
        THEN [payload EXCEPT !.domain =
                [i \in 1..Len(payload.domain) |->
                    IF payload.domain[i].kind = "tuple"
                    THEN [kind |-> "tuple",
                          field |-> JsonElement(payload.domain[i].field),
                          operator |-> JsonElement(payload.domain[i].operator),
                          value |-> JsonElement(payload.domain[i].value)]
                    ELSE payload.domain[i]]]
        ELSE payload]

\* the tool variant returns the payload; the MCP variant returns it as the
\* JSON text of content[0]
Deliver(variant, payload) ==
    IF variant = "tool"
    THEN [returned |-> TRUE, payload |-> payload]
    ELSE [returned |-> TRUE,
          content |-> << [type |-> "text", text |-> Stringify(payload)] >>]

CountCall(input, dom) ==
    [method |-> "search_count", model |-> input.model, domain |-> dom]

\* const fieldsToReturn = fields_to_return || []
FieldsToReturn(input) ==
    IF input.fields_to_return.hasFields
    THEN input.fields_to_return.list
    ELSE << >>

\* (variant: offset and limit in each other's argument position)
ReadCallSwapped(input, dom) ==
    [method |-> "search_read", model |-> input.model, domain |-> dom,
     fields |-> FieldsToReturn(input),
     offset |-> input.limit, limit |-> input.offset]

ReadCall(input, dom) ==
    [method |-> "search_read", model |-> input.model, domain |-> dom,
     fields |-> FieldsToReturn(input),
     offset |-> input.offset, limit |-> input.limit]

CountOnlyPayload(input, dom, total) ==
    [success |-> TRUE, records |-> << >>, count |-> 0, total_count |-> total,
     model |-> input.model, query |-> input.query, domain |-> dom,
     offset |-> input.offset, limit |-> input.limit, has_more |-> FALSE]

\* records?.length || 0, records || [], offset + length < totalCount
RecordsPayload(input, dom, total, answer) ==
    LET n == IF answer.isArray THEN Len(answer.rows) ELSE 0
    IN  [success |-> TRUE,
         records |-> IF answer.isArray THEN answer.rows ELSE << >>,
         count |-> n, total_count |-> total,
         model |-> input.model, query |-> input.query, domain |-> dom,
         offset |-> input.offset, limit |-> input.limit,
         has_more |-> (input.offset + n < total)]

FailurePayload(input, message) ==
    [success |-> FALSE, error |-> message,
     model |-> input.model, query |-> input.query]

\* (variant: only the absent array is refused, the length is not looked at)
HasNoConditionsAbsentOnly(q) == ~q.hasConditions

\* !query || !query.conditions || query.conditions.length === 0
HasNoConditions(q) == ~q.hasConditions \/ Len(q.conditions) = 0

\* (variant: no catch block, the error of the remote call reaches the caller)
OnCallErrorUncaught(variant, input, message) ==
    [returned |-> FALSE, thrown |-> message]

\* the catch block
OnCallError(variant, input, message) ==
    Deliver(variant, FailurePayload(input, message))

PcAfter(result) == IF result.returned THEN "returned" ELSE "threw"

\* entry up to the first await: validation, compilation, search_count issued
SearchStart ==
    /\ sPc = "start"
    /\ IF HasNoConditions(sInput.query)
       THEN /\ sResult' = Deliver(sVariant,
                              [success |-> FALSE, error |-> NoConditionsMessage])
            /\ sPc' = "returned"
            /\ UNCHANGED <<sDomain, sCalls>>
       ELSE /\ sDomain' = convertQueryToDomain(sInput.query)
            /\ sCalls' = Append(sCalls, CountCall(sInput, sDomain'))
            /\ sPc' = "await_count"
            /\ UNCHANGED sResult
    /\ UNCHANGED <<sVariant, sInput, sTotal, sOutcomes>>
    /\ UNCHANGED exceptSearch

\* search_count resolves: return the count alone, or issue search_read
CountResolves ==
    /\ sPc = "await_count"
    /\ \E total \in Counts :
         /\ sTotal' = total
         /\ IF sInput.count_only
            THEN /\ sResult' = Deliver(sVariant,
                                   CountOnlyPayload(sInput, sDomain, total))
                 /\ sPc' = "returned"
                 /\ UNCHANGED sCalls
            ELSE /\ sCalls' = Append(sCalls, ReadCall(sInput, sDomain))
                 /\ sPc' = "await_read"
                 /\ UNCHANGED sResult
    /\ sOutcomes' = Append(sOutcomes, "resolved")
    /\ UNCHANGED <<sVariant, sInput, sDomain>>
    /\ UNCHANGED exceptSearch

\* search_count rejects: the catch block
CountRejects ==
    /\ sPc = "await_count"
    /\ \E message \in CallErrors :
         sResult' = OnCallError(sVariant, sInput, message)
    /\ sPc' = PcAfter(sResult')
    /\ sOutcomes' = Append(sOutcomes, "rejected")
    /\ UNCHANGED <<sVariant, sInput, sDomain, sTotal, sCalls>>
    /\ UNCHANGED exceptSearch

ReadResolves ==
    /\ sPc = "await_read"
    /\ \E answer \in ReadAnswers :
         sResult' = Deliver(sVariant,
                            RecordsPayload(sInput, sDomain, sTotal, answer))
    /\ sPc' = "returned"
    /\ sOutcomes' = Append(sOutcomes, "resolved")
    /\ UNCHANGED <<sVariant, sInput, sDomain, sTotal, sCalls>>
    /\ UNCHANGED exceptSearch

ReadRejects ==
    /\ sPc = "await_read"
    /\ \E message \in CallErrors :
         sResult' = OnCallError(sVariant, sInput, message)
    /\ sPc' = PcAfter(sResult')
    /\ sOutcomes' = Append(sOutcomes, "rejected")
    /\ UNCHANGED <<sVariant, sInput, sDomain, sTotal, sCalls>>
    /\ UNCHANGED exceptSearch

SearchIdle ==
    /\ sVariant = "tool"
    /\ sInput = [model |-> "res.partner"]
    /\ sPc = "idle"
    /\ sDomain = << >>
    /\ sTotal = 0
    /\ sCalls = << >>
    /\ sResult = NoResult
    /\ sOutcomes = << >>

CompilerIdle ==
    /\ query = [logic |-> "AND", hasConditions |-> FALSE, conditions |-> << >>]
    /\ domain = << >>
    /\ phase = "idle"

(***************************************************************************)
(* delete_record.execute and deleteRecord                                  *)
(* (src/app/utils/tools/odoo/crud_operations/get_model_fields.ts)          *)
(***************************************************************************)
RecordIds == {123, 456}

\* the `confirmation` key as the caller wrote it
RawConfirmations == {"true", "false", "omitted"}

DeleteRawInputs ==
    [model : Models, record_id : RecordIds, confirmation : RawConfirmations]

\* confirmation: z.boolean().default(false)
ParseConfirmation(raw) == raw = "true"

\* what the remote system may answer to read: null, or the rows it has
ReadRecordAnswers(store, id) ==
    { [isArray |-> FALSE, rows |-> << >>],
      [isArray |-> TRUE,
       rows |-> IF id \in store THEN << [id |-> id, name |-> "rec"] >> ELSE << >>] }

\* error messages of a failed unlink, with the substrings the catch looks for
DeleteErrors ==
    { "JSON-RPC call failed: Odoo Error 200: Record does not exist or has been deleted",
      "JSON-RPC call failed: Odoo Error 200: access denied by record rule",
      "JSON-RPC call failed: Odoo Error 200: violates foreign key constraint",
      "JSON-RPC call failed: Odoo Error 200: not allowed in this state",
      "JSON-RPC call failed: socket hang up" }

\* errorMessage.includes(part)
Includes(message, part) ==
    CASE message = "JSON-RPC call failed: Odoo Error 200: Record does not exist or has been deleted"
            -> part \in {"does not exist"}
      [] message = "JSON-RPC call failed: Odoo Error 200: access denied by record rule"
            -> part \in {"access", "denied"}
      [] message = "JSON-RPC call failed: Odoo Error 200: violates foreign key constraint"
            -> part \in {"foreign key", "constraint"}
      [] message = "JSON-RPC call failed: Odoo Error 200: not allowed in this state"
            -> part \in {"state"}
      [] OTHER -> FALSE

\* the chain of `if (errorMessage.includes(...))` of the catch block
DeleteErrorCode(message) ==
    IF Includes(message, "does not exist") \/ Includes(message, "not found")
    THEN "RECORD_NOT_FOUND"
    ELSE IF \/ Includes(message, "access")
            \/ Includes(message, "permission")
            \/ Includes(message, "denied")
    THEN "ACCESS_DENIED"
    ELSE IF \/ Includes(message, "constraint")
            \/ Includes(message, "foreign key")
            \/ Includes(message, "reference")
    THEN "DELETION_BLOCKED"
    ELSE IF Includes(message, "workflow") \/ Includes(message, "state")
    THEN "WORKFLOW_RESTRICTION"
    ELSE "DELETION_FAILED"

DeleteErrorPayload(input, message) ==
    [success |-> FALSE, error |-> DeleteErrorCode(message),
     message |-> IF DeleteErrorCode(message) = "DELETION_FAILED"
                 THEN << "Deletion failed", message >>
                 ELSE << DeleteErrorCode(message), input.record_id, input.model >>]

ConfirmationRequiredPayload(input) ==
    [success |-> FALSE, error |-> "CONFIRMATION_REQUIRED",
     message |-> << "Deletion requires explicit user confirmation",
                    input.record_id, input.model >>,
     suggestion |-> "Ask the user to explicitly confirm deletion intent, then set confirmation: true"]

DeletedPayload(input, details) ==
    [success |-> TRUE, model |-> input.model,
     deleted_record_id |-> input.record_id,
     deleted_record_details |-> details,
     message |-> << "permanently deleted", input.record_id, input.model >>]

DeleteFailedPayload(input) ==
    [success |-> FALSE, error |-> "DELETE_FAILED",
     message |-> << "Odoo unlink operation failed", input.record_id >>]

NoDetails == [isNull |-> TRUE]

RemoteCall(method, input) ==
    [method |-> method, model |-> input.model, ids |-> << input.record_id >>]

Logged(method, input) ==
    [method |-> method, record_id |-> input.record_id,
     confirmation |-> input.raw]

\* (variant: the safety check is missing)
NotConfirmedNever(input) == FALSE

\* if (!confirmation)
NotConfirmed(input) == ~input.confirmation

\* a tool call, up to its first await: the safety check, then `read` issued
DeleteStart ==
    /\ dPc \in {"idle", "returned"}
    /\ nDeletes < MaxDeleteCalls
    /\ \E variant \in {"tool", "mcp"}, raw \in DeleteRawInputs :
         LET input == [model |-> raw.model, record_id |-> raw.record_id,
                       confirmation |-> ParseConfirmation(raw.confirmation),
                       raw |-> raw.confirmation]
         IN  /\ dVariant' = variant
             /\ dInput' = input
             /\ IF NotConfirmed(input)
                THEN /\ dResult' = Deliver(variant, ConfirmationRequiredPayload(input))
                     /\ dPc' = "returned"
                     /\ dCalls' = << >>
                     /\ UNCHANGED dLog
                ELSE /\ dCalls' = << RemoteCall("read", input) >>
                     /\ dLog' = dLog \cup {Logged("read", input)}
                     /\ dPc' = "await_read"
                     /\ dResult' = NoResult
    /\ dDetails' = NoDetails
    /\ nDeletes' = nDeletes + 1
    /\ UNCHANGED dStore
    /\ UNCHANGED exceptDelete

\* `read` resolves: keep the first row if there is one, then issue `unlink`
DeleteReadResolves ==
    /\ dPc = "await_read"
    /\ \E answer \in ReadRecordAnswers(dStore, dInput.record_id) :
         dDetails' = IF answer.isArray /\ Len(answer.rows) > 0
                     THEN [isNull |-> FALSE, row |-> answer.rows[1]]
                     ELSE NoDetails
    /\ dCalls' = Append(dCalls, RemoteCall("unlink", dInput))
    /\ dLog' = dLog \cup {Logged("unlink", dInput)}
    /\ dPc' = "await_unlink"
    /\ UNCHANGED <<dVariant, dInput, dResult, dStore, nDeletes>>
    /\ UNCHANGED exceptDelete

\* `read` rejects: the inner catch only logs, `unlink` is issued all the same
DeleteReadRejects ==
    /\ dPc = "await_read"
    /\ dCalls' = Append(dCalls, RemoteCall("unlink", dInput))
    /\ dLog' = dLog \cup {Logged("unlink", dInput)}
    /\ dPc' = "await_unlink"
    /\ UNCHANGED <<dVariant, dInput, dDetails, dResult, dStore, nDeletes>>
    /\ UNCHANGED exceptDelete

\* `unlink` resolves with true (the remote system removed the record) or not
DeleteUnlinkResolves ==
    /\ dPc = "await_unlink"
    /\ \E done \in BOOLEAN :
         /\ dStore' = IF done THEN dStore \ {dInput.record_id} ELSE dStore
         /\ dResult' = Deliver(dVariant,
                               IF done THEN DeletedPayload(dInput, dDetails)
                               ELSE DeleteFailedPayload(dInput))
    /\ dPc' = "returned"
    /\ UNCHANGED <<dVariant, dInput, dDetails, dCalls, dLog, nDeletes>>
    /\ UNCHANGED exceptDelete

\* `unlink` rejects: the outer catch classifies the message
DeleteUnlinkRejects ==
    /\ dPc = "await_unlink"
    /\ \E message \in DeleteErrors :
         dResult' = Deliver(dVariant, DeleteErrorPayload(dInput, message))
    /\ dPc' = "returned"
    /\ UNCHANGED <<dVariant, dInput, dDetails, dCalls, dStore, dLog, nDeletes>>
    /\ UNCHANGED exceptDelete

DeleteIdle ==
    /\ dVariant = "tool"
    /\ dInput = [model |-> "res.partner"]
    /\ dPc = "off"
    /\ dDetails = NoDetails
    /\ dCalls = << >>
    /\ dResult = NoResult
    /\ dStore = {}
    /\ dLog = {}
    /\ nDeletes = 0

(***************************************************************************)
(* The knowledge-management routes and their API-key check                 *)
(* (src/lib/api-auth.ts, src/unnamed/part_001)                             *)
(***************************************************************************)
Routes ==
    { "POST /resources", "GET /resources",
      "PUT /resources/[id]", "DELETE /resources/[id]", "GET /resources/[id]" }

\* process.env.KNOWLEDGE_API_KEY: undefined, or a string
EnvKeys ==
    { [present |-> FALSE, value |-> "undefined"],
      [present |-> TRUE,  value |-> ""],
      [present |-> TRUE,  value |-> "secret"] }

\* request.headers.get('x-api-key'): null, or a string
HeaderKeys ==
    { [present |-> FALSE, value |-> "null"],
      [present |-> TRUE,  value |-> ""],
      [present |-> TRUE,  value |-> "secret"],
      [present |-> TRUE,  value |-> "wrong"] }

\* request bodies: not JSON, or JSON with `content` missing, not a string,
\* or a string
Bodies ==
    { [json |-> FALSE, hasContent |-> FALSE, isString |-> FALSE, content |-> ""],
      [json |-> TRUE,  hasContent |-> FALSE, isString |-> FALSE, content |-> ""],
      [json |-> TRUE,  hasContent |-> TRUE,  isString |-> FALSE, content |-> "42"],
      [json |-> TRUE,  hasContent |-> TRUE,  isString |-> TRUE,  content |-> ""],
      [json |-> TRUE,  hasContent |-> TRUE,  isString |-> TRUE,  content |-> "   "],
      [json |-> TRUE,  hasContent |-> TRUE,  isString |-> TRUE,  content |-> "doc"] }

\* content.trim()
Trim(text) == IF text = "   " THEN "" ELSE text

\* !x for a value that is null, undefined or a string
Falsy(x) == ~x.present \/ x.value = ""

\* (variant: no checks for a missing key, and == instead of ===, under
\* which null and undefined are equal)
validateApiKeyLoose(apiKey, validApiKey) ==
    \/ (~apiKey.present /\ ~validApiKey.present)
    \/ apiKey = validApiKey

validateApiKey(apiKey, validApiKey) ==
    IF Falsy(validApiKey) THEN FALSE
    ELSE IF Falsy(apiKey) THEN FALSE
    ELSE apiKey = validApiKey

unauthorizedResponse(message) == [status |-> 401, body |-> [error |-> message]]

errorResponse(message, status) == [status |-> status, body |-> [error |-> message]]

successResponse(data, status) == [status |-> status, body |-> data]

NoResponse == [status |-> 0]

\* what a server action may return: success, failure with or without an
\* error text; thrown is an exception instead of a result
ActionOutcomes ==
    { [thrown |-> FALSE, success |-> TRUE,  error |-> ""],
      [thrown |-> FALSE, success |-> FALSE, error |-> "Convex error"],
      [thrown |-> FALSE, success |-> FALSE, error |-> ""],
      [thrown |-> TRUE,  success |-> FALSE, error |-> "fetch failed"] }

ActionOf(route) ==
    CASE route = "POST /resources"        -> "addResourceAction"
      [] route = "GET /resources"         -> "listResourcesAction"
      [] route = "PUT /resources/[id]"    -> "updateResourceAction"
      [] route = "DELETE /resources/[id]" -> "deleteResourceAction"
      [] OTHER                            -> "none"

ReadsBody(route) == route \in {"POST /resources", "PUT /resources/[id]"}

FailureText(route) ==
    CASE route = "POST /resources"        -> "Failed to add resource"
      [] route = "GET /resources"         -> "Failed to list resources"
      [] route = "PUT /resources/[id]"    -> "Failed to update resource"
      [] OTHER                            -> "Failed to delete resource"

SuccessResponseOf(route) ==
    CASE route = "POST /resources" ->
            successResponse([id |-> "new-id", success |-> TRUE,
                             message |-> "Resource added successfully"], 201)
      [] route = "GET /resources" ->
            successResponse([success |-> TRUE, resources |-> << >>, count |-> 0], 200)
      [] route = "PUT /resources/[id]" ->
            successResponse([success |-> TRUE,
                             message |-> "Resource updated successfully"], 200)
      [] OTHER ->
            successResponse([success |-> TRUE,
                             message |-> "Resource deleted successfully"], 200)

\* the handler from its first line to its first await of a server action,
\* or to its response
RouteStart ==
    /\ rPc = "start"
    /\ IF ~validateApiKey(rHeader, rEnvKey)
       THEN /\ rResponse' = unauthorizedResponse("Invalid or missing API key")
            /\ rPc' = "responded"
            /\ UNCHANGED <<rBodyRead, rActions>>
       ELSE IF rRoute = "GET /resources/[id]"
       THEN /\ rResponse' = errorResponse("Get specific resource not implemented yet", 501)
            /\ rPc' = "responded"
            /\ UNCHANGED <<rBodyRead, rActions>>
       ELSE IF ~ReadsBody(rRoute)
       THEN /\ rActions' = Append(rActions, ActionOf(rRoute))
            /\ rPc' = "await_action"
            /\ UNCHANGED <<rBodyRead, rResponse>>
       ELSE /\ rBodyRead' = TRUE
            /\ IF ~rBody.json
               THEN /\ rResponse' = errorResponse("Unexpected token", 500)
                    /\ rPc' = "responded"
                    /\ UNCHANGED rActions
               ELSE IF ~rBody.hasContent \/ ~rBody.isString \/ rBody.content = ""
               THEN /\ rResponse' =
                         errorResponse("Content is required and must be a string", 400)
                    /\ rPc' = "responded"
                    /\ UNCHANGED rActions
               ELSE IF Trim(rBody.content) = ""
               THEN /\ rResponse' = errorResponse("Content cannot be empty", 400)
                    /\ rPc' = "responded"
                    /\ UNCHANGED rActions
               ELSE /\ rActions' = Append(rActions, ActionOf(rRoute))
                    /\ rPc' = "await_action"
                    /\ UNCHANGED rResponse
    /\ UNCHANGED <<rRoute, rEnvKey, rHeader, rBody>>
    /\ UNCHANGED exceptRoute

\* the server action ends: its result, or its exception, becomes the response
RouteActionEnds ==
    /\ rPc = "await_action"
    /\ \E outcome \in ActionOutcomes :
         rResponse' =
            IF outcome.thrown THEN errorResponse(outcome.error, 500)
            ELSE IF ~outcome.success
            THEN errorResponse(IF outcome.error = "" THEN FailureText(rRoute)
                               ELSE outcome.error, 500)
            ELSE SuccessResponseOf(rRoute)
    /\ rPc' = "responded"
    /\ UNCHANGED <<rRoute, rEnvKey, rHeader, rBody, rBodyRead, rActions>>
    /\ UNCHANGED exceptRoute

RouteIdle ==
    /\ rRoute = "none"
    /\ rEnvKey = [present |-> FALSE, value |-> "undefined"]
    /\ rHeader = [present |-> FALSE, value |-> "null"]
    /\ rBody = [json |-> FALSE, hasContent |-> FALSE, isString |-> FALSE, content |-> ""]
    /\ rPc = "off"
    /\ rBodyRead = FALSE
    /\ rActions = << >>
    /\ rResponse = NoResponse

(***************************************************************************)
(* The knowledge-base server actions and the Convex mutations they call    *)
(* (src/app/actions/knowledge.ts, src/unnamed/part_004)                    *)
(***************************************************************************)
ResourceIds == {"r1", "r2"}

\* a content is the sequence of sections that split(/\n#{1,3}\s+/) gives:
\* blank, short ("alpha", "beta"), or longer than one chunk ("long")
KContents ==
    { <<" ">>, <<"alpha">>, <<"long">>, <<"beta", " ", "alpha">> }

\* chunkText(section, 3000, 300): nothing for a blank section, the trimmed
\* text for a short one, several chunks for a long one
SectionChunks(section) ==
    CASE section = " "    -> << >>
      [] section = "long" -> <<"long-1", "long-2">>
      [] OTHER            -> <<section>>

RECURSIVE ConcatAll(_)
ConcatAll(seqs) ==
    IF seqs = << >> THEN << >> ELSE Head(seqs) \o ConcatAll(Tail(seqs))

\* the chunk texts of a content, section after section
chunkOdooKnowledge(content) ==
    ConcatAll([i \in 1..Len(content) |-> SectionChunks(content[i])])

\* the vector the embedding service answers for a text
Embedding(text) == [of |-> text]

generateEmbeddings(texts) == [i \in 1..Len(texts) |-> Embedding(texts[i])]

AbsentResource == [present |-> FALSE, content |-> << >>]

addResource(resources, id, content) ==
    [resources EXCEPT ![id] = [present |-> TRUE, content |-> content]]

updateResource(resources, id, content) ==
    [resources EXCEPT ![id] = [present |-> TRUE, content |-> content]]

deleteResource(resources, id) == [resources EXCEPT ![id] = AbsentResource]

listResources(resources) == {id \in ResourceIds : resources[id].present}

addEmbeddings(embeddings, resource_id, data) ==
    [embeddings EXCEPT ![resource_id] = @ \o data]

\* (variant: the rows of the resource are left in place)
deleteEmbeddingsKeepsRows(embeddings, resource_id) == embeddings

deleteEmbeddingsByResourceId(embeddings, resource_id) ==
    [embeddings EXCEPT ![resource_id] = << >>]

\* (variant: the resource row goes first)
DeleteStepsResourceFirst == <<"deleteResource", "deleteEmbeddingsByResourceId">>

\* the awaited calls of deleteResourceAction, in order
DeleteSteps == <<"deleteEmbeddingsByResourceId", "deleteResource">>

\* the awaited calls of each server action, in order
StepsOf(name) ==
    CASE name = "addResourceAction" ->
            <<"addResource", "generateEmbeddings", "addEmbeddings">>
      [] name = "updateResourceAction" ->
            <<"updateResource", "deleteEmbeddingsByResourceId",
              "generateEmbeddings", "addEmbeddings">>
      [] name = "deleteResourceAction" -> DeleteSteps
      [] OTHER -> <<"listResources">>

KnowActions ==
    { "addResourceAction", "updateResourceAction",
      "deleteResourceAction", "listResourcesAction" }

NoKnowOp == [name |-> "none", id |-> "", content |-> << >>]

NoKnowResult ==
    [returned |-> FALSE, success |-> FALSE, id |-> "", resources |-> {},
     error |-> ""]

KnowSuccess(id, resources) ==
    [returned |-> TRUE, success |-> TRUE, id |-> id, resources |-> resources,
     error |-> ""]

KnowFailure(message) ==
    [returned |-> TRUE, success |-> FALSE, id |-> "", resources |-> {},
     error |-> message]

\* `if (chunks.length === 0) return { success: true }`: with no chunk the
\* action returns before generateEmbeddings
RemainingSteps(rest, content) ==
    IF rest # << >> /\ Head(rest) = "generateEmbeddings"
                    /\ chunkOdooKnowledge(content) = << >>
    THEN << >> ELSE rest

\* after an awaited call resolved: go on to the next, or return success
KnowContinue(op, resources) ==
    LET rest == RemainingSteps(Tail(kSteps), op.content) IN
    /\ kSteps' = rest
    /\ IF rest = << >>
       THEN /\ kPc' = "returned"
            /\ kResult' = KnowSuccess(op.id, resources)
       ELSE /\ kPc' = "running"
            /\ kResult' = NoKnowResult

\* a server action is called; getConvexClient throws when the URL is unset
KnowStart ==
    /\ kPc = "idle"
    /\ \E name \in KnowActions, id \in ResourceIds, content \in KContents,
          urlSet \in BOOLEAN :
         /\ kOp' = [name |-> name,
                    id |-> IF name \in {"updateResourceAction", "deleteResourceAction"}
                           THEN id ELSE "",
                    content |-> IF name \in {"addResourceAction", "updateResourceAction"}
                                THEN content ELSE << >>]
         /\ IF urlSet
            THEN /\ kSteps' = StepsOf(name)
                 /\ kPc' = "running"
                 /\ kResult' = NoKnowResult
            ELSE /\ kSteps' = << >>
                 /\ kPc' = "returned"
                 /\ kResult' = KnowFailure("NEXT_PUBLIC_CONVEX_URL is not set")
    /\ kBefore' = [resources |-> kResources, embeddings |-> kEmbeddings]
    /\ kVectors' = << >>
    /\ UNCHANGED <<kResources, kEmbeddings, kUsed>>
    /\ UNCHANGED exceptKnow

AddResourceResolves ==
    /\ kPc = "running"
    /\ Head(kSteps) = "addResource"
    /\ \E id \in ResourceIds \ kUsed :
         /\ kResources' = addResource(kResources, id, kOp.content)
         /\ kUsed' = kUsed \cup {id}
         /\ kOp' = [kOp EXCEPT !.id = id]
         /\ KnowContinue(kOp', {})
    /\ UNCHANGED <<kEmbeddings, kVectors, kBefore>>
    /\ UNCHANGED exceptKnow

\* ctx.db.patch of a document that does not exist fails the mutation
UpdateResourceResolves ==
    /\ kPc = "running"
    /\ Head(kSteps) = "updateResource"
    /\ kResources[kOp.id].present
    /\ kResources' = updateResource(kResources, kOp.id, kOp.content)
    /\ KnowContinue(kOp, {})
    /\ UNCHANGED <<kEmbeddings, kUsed, kOp, kVectors, kBefore>>
    /\ UNCHANGED exceptKnow

DeleteEmbeddingsResolves ==
    /\ kPc = "running"
    /\ Head(kSteps) = "deleteEmbeddingsByResourceId"
    /\ kEmbeddings' = deleteEmbeddingsByResourceId(kEmbeddings, kOp.id)
    /\ KnowContinue(kOp, {})
    /\ UNCHANGED <<kResources, kUsed, kOp, kVectors, kBefore>>
    /\ UNCHANGED exceptKnow

GenerateEmbeddingsResolves ==
    /\ kPc = "running"
    /\ Head(kSteps) = "generateEmbeddings"
    /\ kVectors' = generateEmbeddings(chunkOdooKnowledge(kOp.content))
    /\ KnowContinue(kOp, {})
    /\ UNCHANGED <<kResources, kEmbeddings, kUsed, kOp, kBefore>>
    /\ UNCHANGED exceptKnow

AddEmbeddingsResolves ==
    /\ kPc = "running"
    /\ Head(kSteps) = "addEmbeddings"
    /\ LET chunks == chunkOdooKnowledge(kOp.content)
           embeddingData == [index \in 1..Len(chunks) |->
                               [content |-> chunks[index],
                                embedding |-> kVectors[index]]]
       IN  kEmbeddings' = addEmbeddings(kEmbeddings, kOp.id, embeddingData)
    /\ KnowContinue(kOp, {})
    /\ UNCHANGED <<kResources, kUsed, kOp, kVectors, kBefore>>
    /\ UNCHANGED exceptKnow

\* ctx.db.delete of a document that does not exist fails the mutation
DeleteResourceResolves ==
    /\ kPc = "running"
    /\ Head(kSteps) = "deleteResource"
    /\ kResources[kOp.id].present
    /\ kResources' = deleteResource(kResources, kOp.id)
    /\ KnowContinue(kOp, {})
    /\ UNCHANGED <<kEmbeddings, kUsed, kOp, kVectors, kBefore>>
    /\ UNCHANGED exceptKnow

ListResourcesResolves ==
    /\ kPc = "running"
    /\ Head(kSteps) = "listResources"
    /\ KnowContinue(kOp, listResources(kResources))
    /\ UNCHANGED <<kResources, kEmbeddings, kUsed, kOp, kVectors, kBefore>>
    /\ UNCHANGED exceptKnow

\* the awaited call rejects: the catch block returns { success: false }
KnowStepRejects ==
    /\ kPc = "running"
    /\ kSteps' = << >>
    /\ kPc' = "returned"
    /\ kResult' = KnowFailure(Head(kSteps))
    /\ UNCHANGED <<kResources, kEmbeddings, kUsed, kOp, kVectors, kBefore>>
    /\ UNCHANGED exceptKnow

\* the caller has the result; the next server action may be called
KnowReturn ==
    /\ kPc = "returned"
    /\ kPc' = "idle"
    /\ kOp' = NoKnowOp
    /\ kResult' = NoKnowResult
    /\ kVectors' = << >>
    /\ kBefore' = [resources |-> kResources, embeddings |-> kEmbeddings]
    /\ UNCHANGED <<kResources, kEmbeddings, kUsed, kSteps>>
    /\ UNCHANGED exceptKnow

KnowIdle ==
    /\ kResources = [id \in ResourceIds |-> AbsentResource]
    /\ kEmbeddings = [id \in ResourceIds |-> << >>]
    /\ kUsed = {}
    /\ kOp = NoKnowOp
    /\ kSteps = << >>
    /\ kPc = "off"
    /\ kVectors = << >>
    /\ kResult = NoKnowResult
    /\ kBefore = [resources |-> [id \in ResourceIds |-> AbsentResource],
                  embeddings |-> [id \in ResourceIds |-> << >>]]

(***************************************************************************)
(* The knowledge search: the searchKnowledge tool, searchKnowledgeAction   *)
(* and the vectorSearch action (src/app/utils/tools/knowledge/             *)
(* search_knowledge.ts, src/app/actions/knowledge.ts, src/convex/search.ts)*)
(* Scores and thresholds are in tenths: 7 stands for 0.7.                  *)
(***************************************************************************)
\* most embedding rows in the table
MaxRows == 3

\* largest limit a tool call gives
MaxLimit == 2

\* `limit = 5` and `threshold = 0.7` of the destructuring defaults
DefaultLimit == 5

DefaultThreshold == 7

Scores == {5, 7, 9}

Thresholds == {0, 7, 9, 10}

Omitted == [given |-> FALSE, value |-> 0]

Given(n) == [given |-> TRUE, value |-> n]

KSearchInputs ==
    [query : {"how to search partners"},
     limit : {Omitted} \cup {Given(n) : n \in 1..MaxLimit},
     threshold : {Omitted} \cup {Given(t) : t \in Thresholds}]

\* the row at rank i of the table
EmbeddingRow(i, score) ==
    [_id |-> i,
     resource_id |-> IF i % 2 = 0 THEN "r2" ELSE "r1",
     content |-> IF i % 2 = 0 THEN "chunk of r2" ELSE "chunk of r1",
     embedding |-> [of |-> i],
     _score |-> score]

\* the tables: rows in decreasing order of their similarity to the query
RankedTables ==
    { [i \in 1..Len(scores) |-> EmbeddingRow(i, scores[i])] :
        scores \in { s \in SeqsUpTo(Scores, MaxRows) :
                        \A i \in 1..Len(s) - 1 : s[i] >= s[i + 1] } }

\* array.slice(0, n)
Slice(seq, n) == SubSeq(seq, 1, IF n < Len(seq) THEN n ELSE Len(seq))

\* ctx.vectorSearch: the `limit` nearest rows, each as its _id and _score only
ctxVectorSearch(table, limit) ==
    LET nearest == Slice(table, limit) IN
    [i \in 1..Len(nearest) |-> [_id |-> nearest[i]._id, _score |-> nearest[i]._score]]

\* the handler of the vectorSearch action: `args.limit || 5`
vectorSearch(table, limit) == ctxVectorSearch(table, IF limit = 0 THEN 5 ELSE limit)

Undefined == [defined |-> FALSE, value |-> "undefined"]

\* object.name: the value, or undefined when the object has no such property
Property(object, name) ==
    IF name \in DOMAIN object
    THEN [defined |-> TRUE, value |-> object[name]]
    ELSE Undefined

\* (variant: > instead of >=)
MeetsThresholdStrict(result, threshold) == result._score > threshold

MeetsThreshold(result, threshold) == result._score >= threshold

filter(searchResults, threshold) ==
    LET Keep(result) == MeetsThreshold(result, threshold) IN
    SelectSeq(searchResults, Keep)

\* (variant: the vector search is asked for `limit` candidates)
CandidateLimitSame(limit) == limit

CandidateLimit(limit) == limit * 2

FormatResult(result) ==
    [content |-> Property(result, "content"),
     confidence |-> result._score,
     resource_id |-> Property(result, "resource_id")]

NoAnswer == << >>

NoKSearchResult ==
    [returned |-> FALSE, success |-> FALSE, results |-> << >>, query |-> "",
     message |-> "", error |-> FALSE]

\* the object searchKnowledgeAction returns once the vector search answered
ActionResult(text, limit, threshold, searchResults) ==
    IF Len(searchResults) = 0
    THEN [returned |-> TRUE, success |-> TRUE, results |-> << >>, query |-> text,
          message |-> "No relevant knowledge found", error |-> FALSE]
    ELSE LET filteredResults == Slice(filter(searchResults, threshold), limit)
             results == [i \in 1..Len(filteredResults) |->
                            FormatResult(filteredResults[i])]
         IN  [returned |-> TRUE, success |-> TRUE, results |-> results,
              query |-> text, message |-> "Found relevant results",
              error |-> FALSE]

ActionFailure(text, message) ==
    [returned |-> TRUE, success |-> FALSE, results |-> << >>, query |-> text,
     message |-> message, error |-> TRUE]

\* JSON.stringify of one formatted result: a property whose value is
\* undefined is left out of the text
StringifyResult(rank, item) ==
    [keys |-> {"rank", "confidence"}
                \cup (IF item.content.defined THEN {"content"} ELSE {})
                \cup (IF item.resource_id.defined THEN {"resourceId"} ELSE {}),
     rank |-> rank,
     content |-> item.content.value,
     confidence |-> item.confidence,
     resourceId |-> item.resource_id.value]

NoToolText == [returned |-> FALSE]

\* the text content the tool returns for the action's result
ToolText(input, result) ==
    IF ~result.success
    THEN [returned |-> TRUE, success |-> FALSE, message |-> result.message,
          query |-> input.query, resultCount |-> 0, results |-> << >>]
    ELSE [returned |-> TRUE, success |-> TRUE, message |-> result.message,
          query |-> input.query, resultCount |-> Len(result.results),
          results |-> [index \in 1..Len(result.results) |->
                          StringifyResult(index, result.results[index])]]

\* `const { query, limit = 5, threshold = 0.7 } = input`
LimitOf(input) == IF input.limit.given THEN input.limit.value ELSE DefaultLimit

ThresholdOf(input) ==
    IF input.threshold.given THEN input.threshold.value ELSE DefaultThreshold

\* the tool is called; searchKnowledgeAction awaits the query's embedding
KSearchStart ==
    /\ ksPc = "start"
    /\ ksPc' = "await_embedding"
    /\ UNCHANGED <<ksTable, ksInput, ksRequested, ksAnswer, ksResult, ksTool>>
    /\ UNCHANGED exceptKSearch

\* the embedding arrives; the vector search is called with limit * 2
QueryEmbeddingResolves ==
    /\ ksPc = "await_embedding"
    /\ ksRequested' = CandidateLimit(LimitOf(ksInput))
    /\ ksPc' = "await_search"
    /\ UNCHANGED <<ksTable, ksInput, ksAnswer, ksResult, ksTool>>
    /\ UNCHANGED exceptKSearch

QueryEmbeddingRejects ==
    /\ ksPc = "await_embedding"
    /\ ksResult' = ActionFailure(ksInput.query, "Search failed: Failed to generate embedding")
    /\ ksTool' = ToolText(ksInput, ksResult')
    /\ ksPc' = "returned"
    /\ UNCHANGED <<ksTable, ksInput, ksRequested, ksAnswer>>
    /\ UNCHANGED exceptKSearch

\* the vector search answers; the action filters, slices and formats, and
\* the tool stringifies what the action returned
VectorSearchResolves ==
    /\ ksPc = "await_search"
    /\ ksAnswer' = vectorSearch(ksTable, ksRequested)
    /\ ksResult' = ActionResult(ksInput.query, LimitOf(ksInput),
                                ThresholdOf(ksInput), ksAnswer')
    /\ ksTool' = ToolText(ksInput, ksResult')
    /\ ksPc' = "returned"
    /\ UNCHANGED <<ksTable, ksInput, ksRequested>>
    /\ UNCHANGED exceptKSearch

VectorSearchRejects ==
    /\ ksPc = "await_search"
    /\ ksResult' = ActionFailure(ksInput.query, "Search failed: fetch failed")
    /\ ksTool' = ToolText(ksInput, ksResult')
    /\ ksPc' = "returned"
    /\ UNCHANGED <<ksTable, ksInput, ksRequested, ksAnswer>>
    /\ UNCHANGED exceptKSearch

KSearchIdle ==
    /\ ksTable = << >>
    /\ ksInput = [query |-> "", limit |-> Omitted, threshold |-> Omitted]
    /\ ksPc = "off"
    /\ ksRequested = 0
    /\ ksAnswer = NoAnswer
    /\ ksResult = NoKSearchResult
    /\ ksTool = NoToolText

(***************************************************************************)
(* The MCP route handler and its tool registry                             *)
(* (src/app/api/odoo-mcp/[transport]/route.ts)                             *)
(***************************************************************************)
\* most client requests in one session
MaxMcpRequests == 2

\* the `name` of the tool objects passed to server.tool, in call order
ServerToolCalls ==
    <<"connectToOdoo", "getModelFields", "createRecords", "deleteRecord",
      "smartSearch">>

\* the keys of the capabilities.tools object
CapabilityKeys ==
    {"connectToOdoo", "getModelFields", "createRecords", "deleteRecord",
     "smartSearch"}

\* the tools the setup instructions tell the user to expect
DocumentedTools ==
    {"searchKnowledge", "connectToOdoo", "getModelFields", "createRecords",
     "deleteRecord", "smartSearch", "updateRecord"}

\* the server actions that change the knowledge base
KnowledgeWriteActions ==
    {"addResourceAction", "updateResourceAction", "deleteResourceAction"}

\* tool names a client may ask for
RequestedNames == DocumentedTools \cup KnowledgeWriteActions

\* a tools/call request: the registered tool runs, any other name is an error
Dispatch(tools, name) ==
    IF name \in tools THEN [called |-> name, error |-> FALSE]
    ELSE [called |-> "none", error |-> TRUE]

\* the initializer makes its next server.tool call
McpRegister ==
    /\ mPc = "initializing"
    /\ mNext <= Len(ServerToolCalls)
    /\ mTools' = mTools \cup {ServerToolCalls[mNext]}
    /\ mNext' = mNext + 1
    /\ UNCHANGED <<mPc, mRequests>>
    /\ UNCHANGED exceptMcp

\* the initializer returns: the handler serves requests
McpServe ==
    /\ mPc = "initializing"
    /\ mNext > Len(ServerToolCalls)
    /\ mPc' = "serving"
    /\ UNCHANGED <<mNext, mTools, mRequests>>
    /\ UNCHANGED exceptMcp

\* a client lists the tools
McpListTools ==
    /\ mPc = "serving"
    /\ Len(mRequests) < MaxMcpRequests
    /\ mRequests' = Append(mRequests,
                           [method |-> "tools/list", name |-> "", tools |-> mTools,
                            answer |-> [called |-> "none", error |-> FALSE]])
    /\ UNCHANGED <<mPc, mNext, mTools>>
    /\ UNCHANGED exceptMcp

\* a client calls a tool by name
McpCallTool ==
    /\ mPc = "serving"
    /\ Len(mRequests) < MaxMcpRequests
    /\ \E name \in RequestedNames :
         mRequests' = Append(mRequests,
                             [method |-> "tools/call", name |-> name, tools |-> {},
                              answer |-> Dispatch(mTools, name)])
    /\ UNCHANGED <<mPc, mNext, mTools>>
    /\ UNCHANGED exceptMcp

McpIdle ==
    /\ mPc = "off"
    /\ mNext = 1
    /\ mTools = {}
    /\ mRequests = << >>

(***************************************************************************)
(* convertComplexQueryToDomain, the recursive variant                      *)
(* (src/app/utils/tools/odoo/crud_operations/smart_search.ts)              *)
(***************************************************************************)
\* most nested groups in one conditions array
MaxGroups == 2

LeafA == [field |-> "email", operator |-> "=", value |-> "false"]

LeafB == [field |-> "country_id", operator |-> "=", value |-> "186"]

LeafC == [field |-> "email", operator |-> "!=", value |-> "false"]

LeafD == [field |-> "country_id", operator |-> "=", value |-> "38"]

\* groups of leaf conditions: none, one, two, three
LeafGroups ==
    { [logic |-> l, conditions |-> cs] :
        l \in Logics,
        cs \in { << >>, <<LeafA>>, <<LeafA, LeafB>>, <<LeafC, LeafD>>,
                 <<LeafA, LeafB, LeafC>> } }

\* groups whose `conditions` key is absent
BareGroups == { [logic |-> l] : l \in Logics }

\* the groups whose conditions are 1..MaxGroups groups taken from S
GroupsOver(S) ==
    { [logic |-> l, conditions |-> gs] :
        l \in Logics, gs \in SeqsUpTo(S, MaxGroups) \ { << >> } }

\* the groups two levels deep that the three-level inputs are built from
InnerGroups ==
    { g \in GroupsOver({ [logic |-> "OR", conditions |-> <<LeafA, LeafB>>],
                         [logic |-> "AND", conditions |-> <<LeafB>>] }) :
        g.logic \in {"OR", "NOT"} }

ComplexGroups ==
    LeafGroups \cup BareGroups \cup GroupsOver(LeafGroups \cup BareGroups)
        \cup GroupsOver(InnerGroups)

\* [condition.field, condition.operator, condition.value]
ComplexTuple(condition) ==
    [kind |-> "tuple", field |-> Get(condition, "field"),
     operator |-> Get(condition, "operator"), value |-> Get(condition, "value")]

\* (variant: AND written with explicit '&' markers)
SimplePrefixExplicitAnd(logic, n) ==
    IF logic = "OR" THEN [i \in 1..(n - 1) |-> Marker("|")]
    ELSE IF logic = "NOT" THEN << Marker("!") >>
    ELSE [i \in 1..(n - 1) |-> Marker("&")]

\* the if / else-if on `logic` of the simple-conditions branch
SimplePrefix(logic, n) ==
    IF logic = "OR" THEN [i \in 1..(n - 1) |-> Marker("|")]
    ELSE IF logic = "NOT" THEN << Marker("!") >>
    ELSE << >>

\* (variant: one '|' per nested group)
GroupPrefixPerGroup(logic, n) ==
    IF logic = "OR" THEN [i \in 1..n |-> Marker("|")]
    ELSE IF logic = "NOT" THEN << Marker("!") >>
    ELSE << >>

\* the if / else-if on `logic` of the nested-groups branch
GroupPrefix(logic, n) ==
    IF logic = "OR" THEN [i \in 1..(n - 1) |-> Marker("|")]
    ELSE IF logic = "NOT" THEN << Marker("!") >>
    ELSE << >>

\* domain.push(...groupDomain) for each group, in order
RECURSIVE PushSpread(_)
PushSpread(groupDomains) ==
    IF groupDomains = << >> THEN << >>
    ELSE Head(groupDomains) \o PushSpread(Tail(groupDomains))

RECURSIVE convertComplexQueryToDomain(_)
convertComplexQueryToDomain(queryGroup) ==
    IF "conditions" \notin DOMAIN queryGroup THEN << >>
    ELSE IF Len(queryGroup.conditions) = 0 THEN << >>
    ELSE LET logic == Get(queryGroup, "logic")
             conditions == queryGroup.conditions
             isSimpleCondition == "field" \in DOMAIN conditions[1]
         IN  IF isSimpleCondition
             THEN IF Len(conditions) = 1
                  THEN << ComplexTuple(conditions[1]) >>
                  ELSE SimplePrefix(logic, Len(conditions))
                       \o [i \in 1..Len(conditions) |-> ComplexTuple(conditions[i])]
             ELSE IF Len(conditions) = 1
                  THEN convertComplexQueryToDomain(conditions[1])
                  ELSE GroupPrefix(logic, Len(conditions))
                       \o PushSpread([i \in 1..Len(conditions) |->
                                        convertComplexQueryToDomain(conditions[i])])

ComplexCompile ==
    /\ xPhase = "input"
    /\ xDomain' = convertComplexQueryToDomain(xGroup)
    /\ xPhase' = "compiled"
    /\ UNCHANGED xGroup
    /\ UNCHANGED exceptComplex

ComplexIdle ==
    /\ xGroup = [logic |-> "AND"]
    /\ xDomain = << >>
    /\ xPhase = "off"

(***************************************************************************)
(* smart_search.execute and smartSearch side by side: the two variants     *)
(* called with one input and given the same remote responses               *)
(* (src/app/utils/tools/odoo/crud_operations/smart_search.ts 175-306 and   *)
(* 401-552)                                                                *)
(***************************************************************************)
\* conditions as the input schema admits them: value is z.any() and may be
\* missing
PairConditions ==
    { [field |-> "country_id", operator |-> "=", value |-> "186"],
      [field |-> "country_id", operator |-> "="] }

PairQueries ==
    { [logic |-> l, hasConditions |-> TRUE, conditions |-> cs] :
        l \in Logics, cs \in SeqsUpTo(PairConditions, MaxSearchConds) }
    \cup
    { [logic |-> l, hasConditions |-> FALSE, conditions |-> << >>] :
        l \in Logics }

PairInputs ==
    [model : Models, query : PairQueries, fields_to_return : FieldLists,
     limit : Limits, offset : Offsets, count_only : BOOLEAN]

\* what a remote call may end with: a value, or a thrown error
CountResponses ==
    { [ok |-> TRUE, total |-> n, message |-> ""] : n \in Counts }
    \cup { [ok |-> FALSE, total |-> 0, message |-> m] : m \in CallErrors }

ReadResponses ==
    { [ok |-> TRUE, answer |-> a, message |-> ""] : a \in ReadAnswers }
    \cup { [ok |-> FALSE, answer |-> [isArray |-> FALSE, rows |-> << >>],
            message |-> m] : m \in CallErrors }

NotStarted ==
    [pc |-> "start", domain |-> << >>, total |-> 0, calls |-> << >>,
     result |-> NoResult]

\* the object the tool variant returns
ToolReturn(payload) == [returned |-> TRUE, payload |-> payload]

\* the object the MCP variant returns
McpReturn(payload) ==
    [returned |-> TRUE,
     content |-> << [type |-> "text", text |-> Stringify(payload)] >>]

\* smart_search.execute, from entry to the first await
executeStart(input) ==
    IF HasNoConditions(input.query)
    THEN [NotStarted EXCEPT
            !.pc = "returned",
            !.result = ToolReturn([success |-> FALSE, error |-> NoConditionsMessage])]
    ELSE LET dom == convertQueryToDomain(input.query)
         IN  [NotStarted EXCEPT
                !.pc = "await_count", !.domain = dom,
                !.calls = << CountCall(input, dom) >>]

\* its catch block
executeCatch(run, input, message) ==
    [run EXCEPT !.pc = "returned",
                !.result = ToolReturn(FailurePayload(input, message))]

\* from the answer of search_count to the next await or return
executeAfterCount(run, input, response) ==
    IF ~response.ok THEN executeCatch(run, input, response.message)
    ELSE IF input.count_only
    THEN [run EXCEPT
            !.pc = "returned", !.total = response.total,
            !.result = ToolReturn(CountOnlyPayload(input, run.domain, response.total))]
    ELSE [run EXCEPT
            !.pc = "await_read", !.total = response.total,
            !.calls = Append(run.calls, ReadCall(input, run.domain))]

\* from the answer of search_read to the return
executeAfterRead(run, input, response) ==
    IF ~response.ok THEN executeCatch(run, input, response.message)
    ELSE [run EXCEPT
            !.pc = "returned",
            !.result = ToolReturn(RecordsPayload(input, run.domain, run.total,
                                                 response.answer))]

\* smartSearch, from entry to the first await
smartSearchStart(input) ==
    IF HasNoConditions(input.query)
    THEN [NotStarted EXCEPT
            !.pc = "returned",
            !.result = McpReturn([success |-> FALSE, error |-> NoConditionsMessage])]
    ELSE LET dom == convertQueryToDomain(input.query)
         IN  [NotStarted EXCEPT
                !.pc = "await_count", !.domain = dom,
                !.calls = << CountCall(input, dom) >>]

\* (variant: the failure text carries the error alone)
smartSearchCatchErrorOnly(run, input, message) ==
    [run EXCEPT !.pc = "returned",
                !.result = McpReturn([success |-> FALSE, error |-> message])]

\* its catch block
smartSearchCatch(run, input, message) ==
    [run EXCEPT !.pc = "returned",
                !.result = McpReturn(FailurePayload(input, message))]

\* (variant: count_only is not looked at, search_read is always issued)
smartSearchAfterCountAlwaysReads(run, input, response) ==
    IF ~response.ok THEN smartSearchCatch(run, input, response.message)
    ELSE [run EXCEPT
            !.pc = "await_read", !.total = response.total,
            !.calls = Append(run.calls, ReadCall(input, run.domain))]

smartSearchAfterCount(run, input, response) ==
    IF ~response.ok THEN smartSearchCatch(run, input, response.message)
    ELSE IF input.count_only
    THEN [run EXCEPT
            !.pc = "returned", !.total = response.total,
            !.result = McpReturn(CountOnlyPayload(input, run.domain, response.total))]
    ELSE [run EXCEPT
            !.pc = "await_read", !.total = response.total,
            !.calls = Append(run.calls, ReadCall(input, run.domain))]

smartSearchAfterRead(run, input, response) ==
    IF ~response.ok THEN smartSearchCatch(run, input, response.message)
    ELSE [run EXCEPT
            !.pc = "returned",
            !.result = McpReturn(RecordsPayload(input, run.domain, run.total,
                                                response.answer))]

\* both variants are called with the input
PairStart ==
    /\ pRun.tool.pc = "start"
    /\ pRun.mcp.pc = "start"
    /\ pRun' = [tool |-> executeStart(pInput), mcp |-> smartSearchStart(pInput)]
    /\ UNCHANGED <<pInput, pResponses>>
    /\ UNCHANGED exceptPair

\* search_count ends the same way for every variant that awaits it
PairCountEnds ==
    /\ "await_count" \in {pRun.tool.pc, pRun.mcp.pc}
    /\ \E response \in CountResponses :
         /\ pRun' = [tool |-> IF pRun.tool.pc = "await_count"
                              THEN executeAfterCount(pRun.tool, pInput, response)
                              ELSE pRun.tool,
                     mcp |-> IF pRun.mcp.pc = "await_count"
                             THEN smartSearchAfterCount(pRun.mcp, pInput, response)
                             ELSE pRun.mcp]
         /\ pResponses' = Append(pResponses,
                                 [call |-> "search_count", ok |-> response.ok])
    /\ UNCHANGED pInput
    /\ UNCHANGED exceptPair

\* search_read ends the same way for every variant that awaits it
PairReadEnds ==
    /\ "await_read" \in {pRun.tool.pc, pRun.mcp.pc}
    /\ "await_count" \notin {pRun.tool.pc, pRun.mcp.pc}
    /\ \E response \in ReadResponses :
         /\ pRun' = [tool |-> IF pRun.tool.pc = "await_read"
                              THEN executeAfterRead(pRun.tool, pInput, response)
                              ELSE pRun.tool,
                     mcp |-> IF pRun.mcp.pc = "await_read"
                             THEN smartSearchAfterRead(pRun.mcp, pInput, response)
                             ELSE pRun.mcp]
         /\ pResponses' = Append(pResponses,
                                 [call |-> "search_read", ok |-> response.ok])
    /\ UNCHANGED pInput
    /\ UNCHANGED exceptPair

PairIdle ==
    /\ pInput = [model |-> "res.partner"]
    /\ pRun = [tool |-> [NotStarted EXCEPT !.pc = "off"],
               mcp |-> [NotStarted EXCEPT !.pc = "off"]]
    /\ pResponses = << >>

(***************************************************************************)
(* CircuitBreaker (src/lib/error-handling.ts 54-114): execute calls of     *)
(* several callers on the one breaker getCircuitBreaker keeps per service. *)
(* Time is counted in ticks of half the configured timeout, from an origin *)
(* that slides so that the clock stays within MaxTime.                     *)
(***************************************************************************)
\* OPTIMIZATION_CONFIG.errorHandling.circuitBreaker.threshold
Threshold == 5

\* OPTIMIZATION_CONFIG.errorHandling.circuitBreaker.timeout (60000 ms)
Timeout == 2

MaxTime == 4

MaxFailures == 6

BreakerCallers == {"c1", "c2"}

NoCall ==
    [pc |-> "idle", admittedIn |-> "none", stale |-> FALSE, invoked |-> FALSE,
     result |-> "none"]

\* (variant: the breaker admits a call as soon as timeout ms have passed)
AdmissionAtTimeout(state, lastFailureTime, now) ==
    IF state = "open"
    THEN IF now - lastFailureTime >= Timeout THEN "half-open" ELSE "rejected"
    ELSE state

\* lines 65-75: the state a call is admitted in, or "rejected"
Admission(state, lastFailureTime, now) ==
    IF state = "open"
    THEN IF now - lastFailureTime > Timeout THEN "half-open" ELSE "rejected"
    ELSE state

\* (variant: a successful trial closes the breaker and keeps the count)
AfterSuccessKeepsCount(state, failures) ==
    IF state = "half-open" THEN [state |-> "closed", failures |-> failures]
    ELSE [state |-> state, failures |-> failures]

\* lines 79-82: the breaker after the wrapped function resolved
AfterSuccess(state, failures) ==
    IF state = "half-open" THEN [state |-> "closed", failures |-> 0]
    ELSE [state |-> state, failures |-> failures]

\* lines 85-90: the breaker after the wrapped function rejected
AfterFailure(state, failures, now) ==
    [state |-> IF failures + 1 >= Threshold THEN "open" ELSE state,
     failures |-> failures + 1,
     lastFailureTime |-> now]

\* the calls in flight when the breaker opens were admitted before it opened
MarkStale(calls, opens) ==
    [c \in DOMAIN calls |->
        IF opens /\ calls[c].pc = "in_flight"
        THEN [calls[c] EXCEPT !.stale = TRUE] ELSE calls[c]]

\* execute, lines 64-78: the check of the state and the call of fn
ExecuteEnters ==
    /\ \E c \in DOMAIN bCalls :
         /\ bCalls[c].pc # "in_flight"
         /\ LET admitted == Admission(bState, bLastFailureTime, bNow)
            IN  IF admitted = "rejected"
                THEN /\ bCalls' = [bCalls EXCEPT ![c] =
                            [NoCall EXCEPT !.pc = "settled",
                                           !.result = "CIRCUIT_BREAKER_OPEN:503"]]
                     /\ UNCHANGED bState
                ELSE /\ bCalls' = [bCalls EXCEPT ![c] =
                            [NoCall EXCEPT !.pc = "in_flight",
                                           !.admittedIn = admitted,
                                           !.invoked = TRUE]]
                     /\ bState' = admitted
    /\ UNCHANGED <<bFailures, bLastFailureTime, bNow, bHealthy>>
    /\ UNCHANGED exceptBreaker

\* execute, lines 78-83: fn resolved
FnResolves ==
    /\ \E c \in DOMAIN bCalls :
         /\ bCalls[c].pc = "in_flight"
         /\ LET after == AfterSuccess(bState, bFailures)
            IN  /\ bState' = after.state
                /\ bFailures' = after.failures
         /\ bCalls' = [bCalls EXCEPT ![c].pc = "settled", ![c].result = "value"]
    /\ UNCHANGED <<bLastFailureTime, bNow, bHealthy>>
    /\ UNCHANGED exceptBreaker

\* execute, lines 84-93: fn rejected
FnRejects ==
    /\ ~bHealthy
    /\ bFailures < MaxFailures
    /\ \E c \in DOMAIN bCalls :
         /\ bCalls[c].pc = "in_flight"
         /\ LET after == AfterFailure(bState, bFailures, bNow)
            IN  /\ bState' = after.state
                /\ bFailures' = after.failures
                /\ bLastFailureTime' = after.lastFailureTime
                /\ bCalls' = MarkStale(
                        [bCalls EXCEPT ![c].pc = "settled", ![c].result = "error"],
                        after.state = "open" /\ bState # "open")
    /\ UNCHANGED <<bNow, bHealthy>>
    /\ UNCHANGED exceptBreaker

\* the clock advances by one tick
Tick ==
    /\ IF bNow < MaxTime
       THEN /\ bNow' = bNow + 1
            /\ UNCHANGED bLastFailureTime
       ELSE /\ bLastFailureTime > 0
            /\ bLastFailureTime' = bLastFailureTime - 1
            /\ UNCHANGED bNow
    /\ UNCHANGED <<bState, bFailures, bCalls, bHealthy>>
    /\ UNCHANGED exceptBreaker

\* the service behind the wrapped function recovers
ServiceRecovers ==
    /\ ~bHealthy
    /\ bHealthy' = TRUE
    /\ UNCHANGED <<bState, bFailures, bLastFailureTime, bNow, bCalls>>
    /\ UNCHANGED exceptBreaker

BreakerIdle ==
    /\ bState = "closed"
    /\ bFailures = 0
    /\ bLastFailureTime = 0
    /\ bNow = 0
    /\ bCalls = << >>
    /\ bHealthy = FALSE

(***************************************************************************)
(* withRetry (src/lib/error-handling.ts 116-156)                           *)
(***************************************************************************)
\* OPTIMIZATION_CONFIG.errorHandling.maxRetries
DefaultMaxRetries == 3

\* OPTIMIZATION_CONFIG.errorHandling.retryDelay
DefaultRetryDelay == 1000

MaxRetriesGiven == 2

RetryDelays == {0, 250}

FnErrors == {"ECONNRESET", "ETIMEDOUT"}

FnValues == {"v"}

OptionNames == {"maxRetries", "retryDelay", "exponentialBackoff", "onRetry"}

\* the options objects: every option may be omitted
RetryOptions ==
    { [name \in given |-> all[name]] :
        all \in [maxRetries : 0..MaxRetriesGiven, retryDelay : RetryDelays,
                 exponentialBackoff : BOOLEAN, onRetry : {"callback"}],
        given \in SUBSET OptionNames }

\* lines 126-131: a destructuring default stands for an omitted option
OrDefault(name, default) ==
    IF name \in DOMAIN wOptions THEN wOptions[name] ELSE default

maxRetries == OrDefault("maxRetries", DefaultMaxRetries)

retryDelay == OrDefault("retryDelay", DefaultRetryDelay)

exponentialBackoff == OrDefault("exponentialBackoff", TRUE)

onRetry == OrDefault("onRetry", "undefined")

RECURSIVE Pow(_, _)
\* Math.pow(base, n) for a natural n
Pow(base, n) == IF n = 0 THEN 1 ELSE base * Pow(base, n - 1)

\* (variant: the first delay is already doubled)
DelayDoubledFromStart(attempt) ==
    IF exponentialBackoff THEN retryDelay * Pow(2, attempt + 1) ELSE retryDelay

\* lines 142-144
Delay(attempt) ==
    IF exponentialBackoff THEN retryDelay * Pow(2, attempt) ELSE retryDelay

FnCall == [call |-> "fn"]

OnRetryCall(n, error) == [call |-> "onRetry", attempt |-> n, error |-> error]

SetTimeoutCall(ms) == [call |-> "setTimeout", ms |-> ms]

\* lines 135-137: the loop test and, if it passes, the call of fn
LoopFrom(attempt) ==
    IF attempt <= maxRetries
    THEN /\ wPc' = "await_fn"
         /\ wLog' = Append(wLog, FnCall)
         /\ wResult' = wResult
    ELSE /\ wPc' = "rejected"
         /\ wLog' = wLog
         /\ wResult' = wLastError

\* withRetry is called
RetryStart ==
    /\ wPc = "start"
    /\ wAttempt' = 0
    /\ LoopFrom(0)
    /\ UNCHANGED <<wOptions, wOutcomes, wLastError>>
    /\ UNCHANGED exceptRetry

\* line 137: fn resolved, withRetry returns its value
RetryFnResolves ==
    /\ wPc = "await_fn"
    /\ \E v \in FnValues :
         /\ wResult' = v
         /\ wOutcomes' = Append(wOutcomes, v)
    /\ wPc' = "resolved"
    /\ UNCHANGED <<wOptions, wAttempt, wLog, wLastError>>
    /\ UNCHANGED exceptRetry

\* lines 138-153: fn rejected
RetryFnRejects ==
    /\ wPc = "await_fn"
    /\ \E error \in FnErrors :
         /\ wLastError' = error
         /\ wOutcomes' = Append(wOutcomes, error)
         /\ IF wAttempt < maxRetries
            THEN /\ wLog' = wLog \o
                        (IF onRetry # "undefined"
                         THEN << OnRetryCall(wAttempt + 1, error) >> ELSE << >>)
                        \o << SetTimeoutCall(Delay(wAttempt)) >>
                 /\ wPc' = "await_timer"
                 /\ UNCHANGED <<wAttempt, wResult>>
            ELSE /\ wAttempt' = wAttempt + 1
                 /\ wPc' = "rejected"
                 /\ wResult' = error
                 /\ UNCHANGED wLog
    /\ UNCHANGED wOptions
    /\ UNCHANGED exceptRetry

\* line 150: the timer fired, the loop goes on
RetryTimerFires ==
    /\ wPc = "await_timer"
    /\ wAttempt' = wAttempt + 1
    /\ LoopFrom(wAttempt + 1)
    /\ UNCHANGED <<wOptions, wOutcomes, wLastError>>
    /\ UNCHANGED exceptRetry

RetryIdle ==
    /\ wOptions = [maxRetries |-> 0]
    /\ wAttempt = 0
    /\ wPc = "off"
    /\ wLog = << >>
    /\ wOutcomes = << >>
    /\ wLastError = "undefined"
    /\ wResult = "undefined"

(***************************************************************************)
(* chunkText (src/unnamed/part_007 27-118) on texts given character by     *)
(* character; indexes count from 0 as in the source                        *)
(***************************************************************************)
MaxTextLen == 5

MaxChunkSizeGiven == 3

MaxOverlapGiven == 3

\* the width of the window searched for a break point (line 62)
BreakWindow == 100

Characters == {"a", ".", " ", "\n"}

IsSpace(ch) == ch \in {" ", "\n"}

Texts == SeqsUpTo(Characters, MaxTextLen)

MaxOf(a, b) == IF a >= b THEN a ELSE b

MinOf(a, b) == IF a <= b THEN a ELSE b

\* s.substring(from, to) for 0 <= from <= to
Substring(s, from, to) == SubSeq(s, from + 1, MinOf(to, Len(s)))

RECURSIVE TrimStart(_)
TrimStart(s) ==
    IF s # << >> /\ IsSpace(Head(s)) THEN TrimStart(Tail(s)) ELSE s

RECURSIVE TrimEnd(_)
TrimEnd(s) ==
    IF s # << >> /\ IsSpace(s[Len(s)]) THEN TrimEnd(SubSeq(s, 1, Len(s) - 1))
    ELSE s

\* s.trim()
TrimText(s) == TrimEnd(TrimStart(s))

\* s.lastIndexOf(part), -1 when s does not include part
LastIndexOf(s, part) ==
    LET at == { j \in 0..(Len(s) - Len(part)) :
                  SubSeq(s, j + 1, j + Len(part)) = part }
    IN  IF at = {} THEN -1 ELSE CHOOSE j \in at : \A k \in at : k <= j

\* the last match of /[.!?]\s/g in s, << >> when there is none
LastSentenceEnd(s) ==
    LET at == { j \in 0..(Len(s) - 2) :
                  s[j + 1] \in {".", "!", "?"} /\ IsSpace(s[j + 2]) }
    IN  IF at = {} THEN << >>
        ELSE LET j == CHOOSE j \in at : \A k \in at : k <= j
             IN  SubSeq(s, j + 1, j + 2)

\* lines 60-84: endIndex of a chunk that is not the last one
BreakPoint(cleanText, startIndex, maxChunkSize) ==
    LET searchStart == MaxOf(startIndex + maxChunkSize - BreakWindow, startIndex)
        searchEnd == MinOf(startIndex + maxChunkSize, Len(cleanText))
        searchText == Substring(cleanText, searchStart, searchEnd)
        lastMatch == LastSentenceEnd(searchText)
    IN  IF lastMatch # << >>
        THEN searchStart + LastIndexOf(searchText, lastMatch) + Len(lastMatch)
        ELSE IF LastIndexOf(searchText, << "\n", "\n" >>) # -1
        THEN searchStart + LastIndexOf(searchText, << "\n", "\n" >>) + 2
        ELSE IF LastIndexOf(searchText, << "\n" >>) # -1
        THEN searchStart + LastIndexOf(searchText, << "\n" >>) + 1
        ELSE IF LastIndexOf(searchText, << " " >>) # -1
        THEN searchStart + LastIndexOf(searchText, << " " >>) + 1
        ELSE startIndex + maxChunkSize

\* lines 57-87
EndIndex(cleanText, startIndex, maxChunkSize) ==
    IF startIndex + maxChunkSize < Len(cleanText)
    THEN BreakPoint(cleanText, startIndex, maxChunkSize)
    ELSE Len(cleanText)

\* (variant: the next chunk starts overlapSize before the end, wherever
\* that is)
NextStartByOverlapOnly(startIndex, endIndex, overlapSize) ==
    MaxOf(0, endIndex - overlapSize)

\* line 106
NextStart(startIndex, endIndex, overlapSize) ==
    MaxOf(startIndex + 1, endIndex - overlapSize)

TextChunk(content, startChar, endChar) ==
    [content |-> content, startChar |-> startChar, endChar |-> endChar]

\* chunkText is called; lines 27-54: the empty text, the text that fits one
\* chunk, or the loop
ChunkStart ==
    /\ tPc = "idle"
    /\ \E text \in Texts, maxChunkSize \in 1..MaxChunkSizeGiven,
          overlapSize \in 0..MaxOverlapGiven :
         /\ tText' = text
         /\ tMaxChunkSize' = maxChunkSize
         /\ tOverlapSize' = overlapSize
         /\ LET cleanText == TrimText(text)
            IN  IF Len(cleanText) = 0
                THEN /\ tPc' = "returned"
                     /\ tChunks' = << >>
                     /\ tEndIndex' = 0
                ELSE IF Len(cleanText) <= maxChunkSize
                THEN /\ tPc' = "returned"
                     /\ tChunks' = << TextChunk(cleanText, 0, Len(cleanText)) >>
                     /\ tEndIndex' = Len(cleanText)
                ELSE /\ tPc' = "loop"
                     /\ tChunks' = << >>
                     /\ tEndIndex' = 0
    /\ tStartIndex' = 0
    /\ UNCHANGED exceptChunk

\* lines 56-117: one iteration of the loop, and the return after the last
ChunkIteration ==
    /\ tPc = "loop"
    /\ tEndIndex' = EndIndex(TrimText(tText), tStartIndex, tMaxChunkSize)
    /\ tChunks' =
          IF Len(TrimText(Substring(TrimText(tText), tStartIndex, tEndIndex'))) > 0
          THEN Append(tChunks,
                      TextChunk(TrimText(Substring(TrimText(tText), tStartIndex,
                                                   tEndIndex')),
                                tStartIndex, tEndIndex'))
          ELSE tChunks
    /\ tStartIndex' =
          IF tEndIndex' < Len(TrimText(tText))
          THEN NextStart(tStartIndex, tEndIndex', tOverlapSize)
          ELSE tStartIndex
    /\ tPc' =
          IF tEndIndex' < Len(TrimText(tText)) /\ tStartIndex' < Len(TrimText(tText))
          THEN "loop" ELSE "returned"
    /\ UNCHANGED <<tText, tMaxChunkSize, tOverlapSize>>
    /\ UNCHANGED exceptChunk

ChunkIdle ==
    /\ tText = << >>
    /\ tMaxChunkSize = 1
    /\ tOverlapSize = 0
    /\ tPc = "off"
    /\ tStartIndex = 0
    /\ tEndIndex = 0
    /\ tChunks = << >>

(***************************************************************************)
(* The knowledge-base server actions called concurrently: each awaited     *)
(* mutation is one transaction, and the calls of several running actions   *)
(* interleave (src/app/actions/knowledge.ts 26-150, src/unnamed/part_004   *)
(* 338-437)                                                                *)
(***************************************************************************)
ConcCallers == {"p1", "p2"}

\* two content versions with no chunk in common
ConcContents == { <<"alpha">>, <<"long">> }

ConcActions ==
    {"addResourceAction", "updateResourceAction", "deleteResourceAction"}

NoRun ==
    [name |-> "none", id |-> "", content |-> << >>, steps |-> << >>,
     vectors |-> << >>]

\* the run after its awaited call resolved
Resolved(run) ==
    [run EXCEPT !.steps = RemainingSteps(Tail(run.steps), run.content)]

\* a caller calls a server action
ConcStart ==
    /\ \E p \in ConcCallers, name \in ConcActions, id \in ResourceIds,
          content \in ConcContents :
         /\ cRuns[p].steps = << >>
         /\ cRuns' = [cRuns EXCEPT ![p] =
               [name |-> name,
                id |-> IF name = "addResourceAction" THEN "" ELSE id,
                content |-> IF name = "deleteResourceAction" THEN << >>
                            ELSE content,
                steps |-> StepsOf(name),
                vectors |-> << >>]]
    /\ UNCHANGED <<cResources, cEmbeddings, cUsed>>
    /\ UNCHANGED exceptConc

ConcAddResource ==
    /\ \E p \in ConcCallers, id \in ResourceIds \ cUsed :
         /\ cRuns[p].steps # << >>
         /\ Head(cRuns[p].steps) = "addResource"
         /\ cResources' = addResource(cResources, id, cRuns[p].content)
         /\ cUsed' = cUsed \cup {id}
         /\ cRuns' = [cRuns EXCEPT ![p] = Resolved([cRuns[p] EXCEPT !.id = id])]
    /\ UNCHANGED cEmbeddings
    /\ UNCHANGED exceptConc

\* ctx.db.patch of a document that does not exist fails the mutation
ConcUpdateResource ==
    /\ \E p \in ConcCallers :
         /\ cRuns[p].steps # << >>
         /\ Head(cRuns[p].steps) = "updateResource"
         /\ cResources[cRuns[p].id].present
         /\ cResources' = updateResource(cResources, cRuns[p].id, cRuns[p].content)
         /\ cRuns' = [cRuns EXCEPT ![p] = Resolved(cRuns[p])]
    /\ UNCHANGED <<cEmbeddings, cUsed>>
    /\ UNCHANGED exceptConc

ConcDeleteEmbeddings ==
    /\ \E p \in ConcCallers :
         /\ cRuns[p].steps # << >>
         /\ Head(cRuns[p].steps) = "deleteEmbeddingsByResourceId"
         /\ cEmbeddings' = deleteEmbeddingsByResourceId(cEmbeddings, cRuns[p].id)
         /\ cRuns' = [cRuns EXCEPT ![p] = Resolved(cRuns[p])]
    /\ UNCHANGED <<cResources, cUsed>>
    /\ UNCHANGED exceptConc

ConcGenerateEmbeddings ==
    /\ \E p \in ConcCallers :
         /\ cRuns[p].steps # << >>
         /\ Head(cRuns[p].steps) = "generateEmbeddings"
         /\ cRuns' = [cRuns EXCEPT ![p] =
               Resolved([cRuns[p] EXCEPT !.vectors =
                    generateEmbeddings(chunkOdooKnowledge(cRuns[p].content))])]
    /\ UNCHANGED <<cResources, cEmbeddings, cUsed>>
    /\ UNCHANGED exceptConc

\* the rows are inserted whether or not the resource still exists
ConcAddEmbeddings ==
    /\ \E p \in ConcCallers :
         /\ cRuns[p].steps # << >>
         /\ Head(cRuns[p].steps) = "addEmbeddings"
         /\ LET chunks == chunkOdooKnowledge(cRuns[p].content)
                embeddingData == [index \in 1..Len(chunks) |->
                                    [content |-> chunks[index],
                                     embedding |-> cRuns[p].vectors[index]]]
            IN  cEmbeddings' = addEmbeddings(cEmbeddings, cRuns[p].id, embeddingData)
         /\ cRuns' = [cRuns EXCEPT ![p] = Resolved(cRuns[p])]
    /\ UNCHANGED <<cResources, cUsed>>
    /\ UNCHANGED exceptConc

\* ctx.db.delete of a document that does not exist fails the mutation
ConcDeleteResource ==
    /\ \E p \in ConcCallers :
         /\ cRuns[p].steps # << >>
         /\ Head(cRuns[p].steps) = "deleteResource"
         /\ cResources[cRuns[p].id].present
         /\ cResources' = deleteResource(cResources, cRuns[p].id)
         /\ cRuns' = [cRuns EXCEPT ![p] = Resolved(cRuns[p])]
    /\ UNCHANGED <<cEmbeddings, cUsed>>
    /\ UNCHANGED exceptConc

\* the awaited call rejects: the catch block ends the action, what the
\* earlier calls wrote stays
ConcStepRejects ==
    /\ \E p \in ConcCallers :
         /\ cRuns[p].steps # << >>
         /\ cRuns' = [cRuns EXCEPT ![p] = NoRun]
    /\ UNCHANGED <<cResources, cEmbeddings, cUsed>>
    /\ UNCHANGED exceptConc

ConcIdle ==
    /\ cResources = [id \in ResourceIds |-> AbsentResource]
    /\ cEmbeddings = [id \in ResourceIds |-> << >>]
    /\ cUsed = {}
    /\ cRuns = << >>

\*## components

(***************************************************************************)
(* Specifications.  Each one runs one component; the variables of the      *)
(* other components keep their idle values.                                *)
(***************************************************************************)
IdleExcept(component) ==
    /\ component = "compiler" \/ CompilerIdle
    /\ component = "search" \/ SearchIdle
    /\ component = "callers" \/ CallersIdle
    /\ component = "delete" \/ DeleteIdle
    /\ component = "route" \/ RouteIdle
    /\ component = "knowledge" \/ KnowIdle
    /\ component = "ksearch" \/ KSearchIdle
    /\ component = "mcp" \/ McpIdle
    /\ component = "complex" \/ ComplexIdle
    /\ component = "pair" \/ PairIdle
    /\ component = "breaker" \/ BreakerIdle
    /\ component = "retry" \/ RetryIdle
    /\ component = "chunker" \/ ChunkIdle
    /\ component = "concurrent" \/ ConcIdle

SearchInit ==
    /\ sVariant \in {"tool", "mcp"}
    /\ sInput \in SearchInputs
    /\ sPc = "start"
    /\ sDomain = << >>
    /\ sTotal = 0
    /\ sCalls = << >>
    /\ sResult = NoResult
    /\ sOutcomes = << >>
    /\ IdleExcept("search")

SearchNext ==
    \/ SearchStart
    \/ CountResolves
    \/ CountRejects
    \/ ReadResolves
    \/ ReadRejects

SearchSpec == SearchInit /\ [][SearchNext]_vars

(***************************************************************************)
(* Specification of the delete tool: tool calls one after the other        *)
(***************************************************************************)
DeleteInit ==
    /\ dVariant = "tool"
    /\ dInput = [model |-> "res.partner"]
    /\ dPc = "idle"
    /\ dDetails = NoDetails
    /\ dCalls = << >>
    /\ dResult = NoResult
    /\ dStore \in SUBSET RecordIds
    /\ dLog = {}
    /\ nDeletes = 0
    /\ IdleExcept("delete")

DeleteNext ==
    \/ DeleteStart
    \/ DeleteReadResolves
    \/ DeleteReadRejects
    \/ DeleteUnlinkResolves
    \/ DeleteUnlinkRejects

DeleteSpec == DeleteInit /\ [][DeleteNext]_vars

(***************************************************************************)
(* Specification of the knowledge-management routes: one request           *)
(***************************************************************************)
RouteInit ==
    /\ rRoute \in Routes
    /\ rEnvKey \in EnvKeys
    /\ rHeader \in HeaderKeys
    /\ rBody \in Bodies
    /\ rPc = "start"
    /\ rBodyRead = FALSE
    /\ rActions = << >>
    /\ rResponse = NoResponse
    /\ IdleExcept("route")

RouteNext == RouteStart \/ RouteActionEnds

RouteSpec == RouteInit /\ [][RouteNext]_vars

(***************************************************************************)
(* Specification of the knowledge-base server actions, one at a time, on   *)
(* tables that start empty                                                 *)
(***************************************************************************)
KnowInit ==
    /\ kResources = [id \in ResourceIds |-> AbsentResource]
    /\ kEmbeddings = [id \in ResourceIds |-> << >>]
    /\ kUsed = {}
    /\ kOp = NoKnowOp
    /\ kSteps = << >>
    /\ kPc = "idle"
    /\ kVectors = << >>
    /\ kResult = NoKnowResult
    /\ kBefore = [resources |-> kResources, embeddings |-> kEmbeddings]
    /\ IdleExcept("knowledge")

KnowNext ==
    \/ KnowStart
    \/ AddResourceResolves
    \/ UpdateResourceResolves
    \/ DeleteEmbeddingsResolves
    \/ GenerateEmbeddingsResolves
    \/ AddEmbeddingsResolves
    \/ DeleteResourceResolves
    \/ ListResourcesResolves
    \/ KnowStepRejects
    \/ KnowReturn

KnowSpec == KnowInit /\ [][KnowNext]_vars

(***************************************************************************)
(* Specification of the knowledge search: one tool call on one table       *)
(***************************************************************************)
KSearchInit ==
    /\ ksTable \in RankedTables
    /\ ksInput \in KSearchInputs
    /\ ksPc = "start"
    /\ ksRequested = 0
    /\ ksAnswer = NoAnswer
    /\ ksResult = NoKSearchResult
    /\ ksTool = NoToolText
    /\ IdleExcept("ksearch")

KSearchNext ==
    \/ KSearchStart
    \/ QueryEmbeddingResolves
    \/ QueryEmbeddingRejects
    \/ VectorSearchResolves
    \/ VectorSearchRejects

KSearchSpec == KSearchInit /\ [][KSearchNext]_vars

(***************************************************************************)
(* Specification of the MCP route handler: initialization, then requests   *)
(***************************************************************************)
McpInit ==
    /\ mPc = "initializing"
    /\ mNext = 1
    /\ mTools = {}
    /\ mRequests = << >>
    /\ IdleExcept("mcp")

McpNext == McpRegister \/ McpServe \/ McpListTools \/ McpCallTool

McpSpec == McpInit /\ [][McpNext]_vars

(***************************************************************************)
(* Specification of the recursive variant: one call on one group           *)
(***************************************************************************)
ComplexInit ==
    /\ xGroup \in ComplexGroups
    /\ xDomain = << >>
    /\ xPhase = "input"
    /\ IdleExcept("complex")

ComplexNext == ComplexCompile

ComplexSpec == ComplexInit /\ [][ComplexNext]_vars

(***************************************************************************)
(* Specification of the two search variants side by side                   *)
(***************************************************************************)
PairInit ==
    /\ pInput \in PairInputs
    /\ pRun = [tool |-> NotStarted, mcp |-> NotStarted]
    /\ pResponses = << >>
    /\ IdleExcept("pair")

PairNext == PairStart \/ PairCountEnds \/ PairReadEnds

PairSpec == PairInit /\ [][PairNext]_vars

(***************************************************************************)
(* Specifications of the circuit breaker: callers sharing the breaker, and *)
(* one caller with the clock, the caller and the wrapped function making   *)
(* progress                                                                *)
(***************************************************************************)
BreakerStart(callers) ==
    /\ bState = "closed"
    /\ bFailures = 0
    /\ bLastFailureTime = 0
    /\ bNow = Timeout + 1
    /\ bCalls = [c \in callers |-> NoCall]
    /\ bHealthy = FALSE

BreakerInit == BreakerStart(BreakerCallers) /\ IdleExcept("breaker")

BreakerNext ==
    ExecuteEnters \/ FnResolves \/ FnRejects \/ Tick \/ ServiceRecovers

BreakerSpec == BreakerInit /\ [][BreakerNext]_vars

RecoveryInit == BreakerStart({"c1"}) /\ IdleExcept("breaker")

RecoverySpec ==
    /\ RecoveryInit
    /\ [][BreakerNext]_vars
    /\ WF_vars(Tick)
    /\ WF_vars(ExecuteEnters)
    /\ WF_vars(FnResolves)

(***************************************************************************)
(* Specification of withRetry                                              *)
(***************************************************************************)
RetryInit ==
    /\ wOptions \in RetryOptions
    /\ wAttempt = 0
    /\ wPc = "start"
    /\ wLog = << >>
    /\ wOutcomes = << >>
    /\ wLastError = "undefined"
    /\ wResult = "undefined"
    /\ IdleExcept("retry")

RetryNext == RetryStart \/ RetryFnResolves \/ RetryFnRejects \/ RetryTimerFires

RetrySpec == RetryInit /\ [][RetryNext]_vars

(***************************************************************************)
(* Specifications of chunkText: every step of a call, and the same with    *)
(* the call that runs making progress                                      *)
(***************************************************************************)
ChunkInit ==
    /\ tText = << >>
    /\ tMaxChunkSize = 1
    /\ tOverlapSize = 0
    /\ tPc = "idle"
    /\ tStartIndex = 0
    /\ tEndIndex = 0
    /\ tChunks = << >>
    /\ IdleExcept("chunker")

ChunkNext == ChunkStart \/ ChunkIteration

ChunkSpec == ChunkInit /\ [][ChunkNext]_vars

ChunkRunSpec == ChunkSpec /\ WF_vars(ChunkIteration)

(***************************************************************************)
(* Specification of the knowledge-base server actions called concurrently, *)
(* on tables that start empty                                              *)
(***************************************************************************)
ConcInit ==
    /\ cResources = [id \in ResourceIds |-> AbsentResource]
    /\ cEmbeddings = [id \in ResourceIds |-> << >>]
    /\ cUsed = {}
    /\ cRuns = [p \in ConcCallers |-> NoRun]
    /\ IdleExcept("concurrent")

ConcNext ==
    \/ ConcStart
    \/ ConcAddResource
    \/ ConcUpdateResource
    \/ ConcDeleteEmbeddings
    \/ ConcGenerateEmbeddings
    \/ ConcAddEmbeddings
    \/ ConcDeleteResource
    \/ ConcStepRejects

ConcSpec == ConcInit /\ [][ConcNext]_vars

(***************************************************************************)
(* Specification of the callers of the compiler                            *)
(***************************************************************************)
CallersInit ==
    /\ CallersIdle
    /\ IdleExcept("callers")

CallersNext ==
    \E c \in Callers :
        \/ Call(c)
        \/ Enter(c)
        \/ PushMarker(c)
        \/ PushTuple(c)
        \/ Return(c)

CallersSpec == CallersInit /\ [][CallersNext]_vars

(***************************************************************************)
(* Specification of the compiler: any query object in, one call.           *)
(***************************************************************************)
Init ==
    /\ query \in Queries
    /\ domain = << >>
    /\ phase = "input"
    /\ IdleExcept("compiler")

Compile ==
    /\ phase = "input"
    /\ domain' = convertQueryToDomain(query)
    /\ phase' = "compiled"
    /\ UNCHANGED query
    /\ UNCHANGED exceptComp

\* the caller passes another query object to a new call
NewQuery ==
    /\ phase = "compiled"
    /\ query' \in Queries
    /\ domain' = << >>
    /\ phase' = "input"
    /\ UNCHANGED exceptComp

Next == Compile \/ NewQuery

Spec == Init /\ [][Next]_vars

(***************************************************************************)
(* Specification of the compiler on queries with incomplete conditions     *)
(***************************************************************************)
LooseInit ==
    /\ query \in LooseQueries
    /\ domain = << >>
    /\ phase = "input"
    /\ IdleExcept("compiler")

LooseNext == Compile

LooseSpec == LooseInit /\ [][LooseNext]_vars

(***************************************************************************)
(* Properties of the compiler, checked under Spec                          *)
(***************************************************************************)
\* what the wire format shows for a condition: its field, operator and value
ExpectedTuple(c) ==
    [kind |-> "tuple", field |-> c.field, operator |-> c.operator,
     value |-> c.value]

ExpectedTuples(cs) == [i \in 1..Len(cs) |-> ExpectedTuple(cs[i])]

Compiled == phase = "compiled"

NumConds == Len(query.conditions)

IsTupleToken(t) == t.kind = "tuple"

C2_AndJuxtaposition ==
    (Compiled /\ query.logic = "AND" /\ NumConds >= 2)
        => /\ Len(domain) = NumConds
           /\ \A i \in 1..NumConds :
                domain[i] = ExpectedTuple(query.conditions[i])

C2_Witness ==
    /\ Compiled
    /\ query.logic = "AND"
    /\ NumConds = 3
    /\ Len(domain) = 3
    /\ domain[3] = ExpectedTuple(query.conditions[3])

\* C3: an OR group with N >= 2 conditions compiles to exactly N-1 '|' markers
\* followed by the N condition tuples in input order (length 2N-1, every
\* marker before every tuple).
C3_OrMarkersThenTuples ==
    (Compiled /\ query.logic = "OR" /\ NumConds >= 2)
        => /\ Len(domain) = 2 * NumConds - 1
           /\ \A i \in 1..(NumConds - 1) : domain[i] = [kind |-> "marker", sym |-> "|"]
           /\ \A i \in 1..NumConds :
                domain[NumConds - 1 + i] = ExpectedTuple(query.conditions[i])

C3_Witness ==
    /\ Compiled
    /\ query.logic = "OR"
    /\ NumConds = 3
    /\ Len(domain) = 5
    /\ domain[2].kind = "marker"
    /\ domain[3].kind = "tuple"

\* C4: a NOT group with N >= 1 conditions (N = 1 included) compiles to the
\* single marker '!' followed by the N condition tuples in input order; so
\* {logic: NOT, conditions: [email = false]} gives ['!', ['email','=',false]].
C4_NotPrefixAlways ==
    (Compiled /\ query.logic = "NOT" /\ NumConds >= 1)
        => domain = << [kind |-> "marker", sym |-> "!"] >>
                        \o ExpectedTuples(query.conditions)

\* C5: for an OR group of N >= 2 conditions and every truth assignment, the
\* emitted expression is a complete expression of the prefix grammar and is
\* true exactly when at least one of the N conditions is true.
C5_OrMeansAnyCondition ==
    (Compiled /\ query.logic = "OR" /\ NumConds >= 2)
        => /\ WellFormed(domain)
           /\ \A truth \in TruthAssignments :
                Matches(domain, truth)
                    <=> (\E i \in 1..NumConds : truth[query.conditions[i]])

\* three different conditions, so that an assignment can make only the third true
C5_Witness ==
    /\ Compiled
    /\ query.logic = "OR"
    /\ NumConds = 3
    /\ Cardinality({query.conditions[i] : i \in 1..3}) = 3
    /\ \E truth \in TruthAssignments :
         /\ ~truth[query.conditions[1]]
         /\ ~truth[query.conditions[2]]
         /\ truth[query.conditions[3]]
         /\ Matches(domain, truth)

\* C6: for a NOT group of N >= 2 conditions and every truth assignment, the
\* emitted expression, in the grammar where '!' applies to the next single
\* expression, is true exactly when NOT (c1 AND ... AND cN).
C6_NotNegatesWholeGroup ==
    (Compiled /\ query.logic = "NOT" /\ NumConds >= 2)
        => \A truth \in TruthAssignments :
             Matches(domain, truth)
                 <=> ~(\A i \in 1..NumConds : truth[query.conditions[i]])

\* C7: for every input group the output is a flat sequence of marker tokens
\* and 3-tuples only, and its subsequence of 3-tuples is the input
\* conditions in input order with the same multiplicity (duplicates kept,
\* nothing reordered, dropped or merged), each with the condition's field,
\* operator and value.
C7_TuplesAreTheConditions ==
    Compiled
        => /\ \A i \in 1..Len(domain) :
                \/ domain[i].kind = "tuple"
                \/ domain[i] \in { [kind |-> "marker", sym |-> "|"],
                                   [kind |-> "marker", sym |-> "!"] }
           /\ SelectSeq(domain, IsTupleToken) = ExpectedTuples(query.conditions)

\* a group that repeats a condition and is not a palindrome
C7_Witness ==
    /\ Compiled
    /\ NumConds = 3
    /\ query.conditions[1] = query.conditions[2]
    /\ query.conditions[2] # query.conditions[3]
    /\ Len(SelectSeq(domain, IsTupleToken)) = 3

\* C9: for a group whose conditions array is empty or absent the compiler
\* returns the empty sequence for every logic value: no marker is emitted
\* (the first branch returns before the marker code runs).
C9_EmptyConditionsEmptyDomain ==
    (Compiled /\ (~query.hasConditions \/ NumConds = 0))
        => domain = << >>

C9_Witness ==
    /\ Compiled
    /\ query.logic = "NOT"
    /\ query.hasConditions
    /\ NumConds = 0
    /\ domain = << >>

(***************************************************************************)
(* Properties of the search entry points, checked under SearchSpec         *)
(***************************************************************************)
\* C10: in one search call the domain sent to search_count and the one sent
\* to search_read are the same compiled domain, and limit, offset and a
\* supplied fields_to_return list reach search_read unmodified (an omitted
\* list is sent as the empty list).
C10_SameDomainAndPassThrough ==
    \A i \in 1..Len(sCalls) :
        /\ sCalls[i].domain = convertQueryToDomain(sInput.query)
        /\ sCalls[i].method = "search_read"
            => /\ i = 2
               /\ sCalls[1].method = "search_count"
               /\ sCalls[1].domain = sCalls[i].domain
               /\ sCalls[i].limit = sInput.limit
               /\ sCalls[i].offset = sInput.offset
               /\ sCalls[i].fields =
                     IF sInput.fields_to_return.hasFields
                     THEN sInput.fields_to_return.list
                     ELSE << >>

C10_Witness ==
    /\ sPc = "returned"
    /\ Len(sCalls) = 2
    /\ sCalls[2].method = "search_read"
    /\ sInput.query.logic = "OR"
    /\ Len(sCalls[2].domain) = 3
    /\ sInput.offset = 5
    /\ sInput.limit = 20
    /\ sInput.fields_to_return.hasFields
    /\ sCalls[2].fields = << "name", "email" >>

(***************************************************************************)
(* Properties of concurrent callers, checked under CallersSpec             *)
(***************************************************************************)
\* C8: the compiler is deterministic and stateless: two calls with
\* structurally equal query groups return structurally equal outputs,
\* whatever other calls ran before or are interleaved with them.
C8_EqualQueriesEqualOutputs ==
    \A r1, r2 \in returns :
        r1.query = r2.query => r1.output = r2.output

\* three calls have returned and only two different (query, output) pairs
\* exist: two calls had the same query, and a call of another query ran too
C8_Witness ==
    /\ nCalls = 3
    /\ \A c \in Callers : cPc[c] = "idle"
    /\ Cardinality(returns) = 2
    /\ \E r \in returns : r.query.logic = "OR" /\ Len(r.output) = 3
    /\ \E r \in returns : r.query.logic = "NOT" /\ Len(r.output) = 3

(***************************************************************************)
(* Properties of the search entry points, continued (SearchSpec)           *)
(***************************************************************************)
\* the payload the caller reads: the returned object, or the JSON text of
\* content[0] parsed back
PayloadOf(result) ==
    IF "payload" \in DOMAIN result
    THEN result.payload
    ELSE result.content[1].text.json

SomeCallRejected == \E i \in 1..Len(sOutcomes) : sOutcomes[i] = "rejected"

\* C11: the search tool never propagates an exception to its caller: when
\* search_count or search_read fails, at either step, the call ends with a
\* result carrying success = false and an error message; a result with
\* success = true is produced only when every remote call issued succeeded.
C11_FailuresBecomeResults ==
    /\ sPc # "threw"
    /\ SomeCallRejected
        => /\ sPc = "returned"
           /\ sResult.returned
           /\ PayloadOf(sResult).success = FALSE
           /\ PayloadOf(sResult).error \in
                { "JSON-RPC call failed: Odoo Error",
                  "JSON-RPC call failed: Unknown error" }
    /\ (sPc = "returned" /\ PayloadOf(sResult).success)
        => /\ Len(sOutcomes) = Len(sCalls)
           /\ \A i \in 1..Len(sOutcomes) : sOutcomes[i] = "resolved"

\* search_count succeeded and search_read failed
C11_Witness ==
    /\ sPc = "returned"
    /\ sOutcomes = << "resolved", "rejected" >>
    /\ Len(sCalls) = 2
    /\ sVariant = "mcp"
    /\ PayloadOf(sResult).success = FALSE

\* C19: a search whose query has an empty or missing conditions array is
\* rejected by both entry points before compilation: the result is
\* success = false with 'No conditions provided. Please specify at least one
\* condition.', neither search_count nor search_read is issued, and so an
\* empty (match-all) domain is never sent to the remote system.
C19_NoConditionsNoRemoteCall ==
    /\ \A i \in 1..Len(sCalls) : sCalls[i].domain # << >>
    /\ (~sInput.query.hasConditions \/ Len(sInput.query.conditions) = 0)
        => /\ sCalls = << >>
           /\ sPc \in {"start", "returned"}
           /\ sPc = "returned"
                => PayloadOf(sResult) =
                     [success |-> FALSE,
                      error |-> "No conditions provided. Please specify at least one condition."]

C19_Witness ==
    /\ sPc = "returned"
    /\ sVariant = "mcp"
    /\ sInput.query.hasConditions
    /\ sInput.query.conditions = << >>
    /\ sInput.query.logic = "OR"
    /\ sCalls = << >>
    /\ PayloadOf(sResult).success = FALSE

(***************************************************************************)
(* Properties of the delete tool, checked under DeleteSpec                 *)
(***************************************************************************)
\* C12: deleteRecord issues no remote call at all (neither the pre-delete
\* read nor unlink) unless confirmation is true; with confirmation false or
\* defaulted it returns success = false with error CONFIRMATION_REQUIRED; so
\* over any sequence of tool calls a record is unlinked only by a call that
\* carried confirmation = true.
C12_NoRemoteCallWithoutConfirmation ==
    /\ [](\A e \in dLog : e.confirmation = "true")
    /\ []((dPc \notin {"idle", "off"} /\ dInput.raw # "true")
            => /\ dCalls = << >>
               /\ dPc = "returned"
               /\ PayloadOf(dResult).success = FALSE
               /\ PayloadOf(dResult).error = "CONFIRMATION_REQUIRED")
    /\ [][ dStore' # dStore
            => /\ dInput.raw = "true"
               /\ dStore' = dStore \ {dInput.record_id}
               /\ dCalls[Len(dCalls)].method = "unlink" ]_vars

\* an unconfirmed call is refused after a confirmed one removed a record
C12_Witness ==
    /\ nDeletes = 2
    /\ dPc = "returned"
    /\ dInput.raw = "omitted"
    /\ dVariant = "mcp"
    /\ dCalls = << >>
    /\ 123 \in dStore
    /\ 456 \notin dStore
    /\ \E e \in dLog : e.method = "unlink" /\ e.record_id = 456

(***************************************************************************)
(* Properties of the knowledge-management routes, checked under RouteSpec  *)
(***************************************************************************)
\* C13: every knowledge-management route (POST and GET /resources, PUT,
\* DELETE and GET /resources/[id]) answers 401, invokes no server action and
\* reads no request body when the x-api-key header is missing or differs
\* from KNOWLEDGE_API_KEY; when KNOWLEDGE_API_KEY is unset every request is
\* rejected, whatever key it carries.
C13_BadKeyRejectedBeforeAnything ==
    (\/ ~rHeader.present
     \/ ~rEnvKey.present
     \/ rHeader.value # rEnvKey.value)
        => /\ rActions = << >>
           /\ ~rBodyRead
           /\ rPc \in {"start", "responded"}
           /\ rPc = "responded" => rResponse.status = 401

C13_Witness ==
    /\ rPc = "responded"
    /\ rRoute = "PUT /resources/[id]"
    /\ rEnvKey.present
    /\ rEnvKey.value = "secret"
    /\ rHeader.value = "wrong"
    /\ rBody.content = "doc"
    /\ rResponse.status = 401

(***************************************************************************)
(* Properties of the knowledge-base server actions, checked under KnowSpec *)
(***************************************************************************)
RowContents(rows) == [i \in 1..Len(rows) |-> rows[i].content]

\* C14: after deleteResourceAction(id) returns success the resource is
\* absent from the resource list and no embedding row with resource_id = id
\* remains; the embeddings go before the resource row, so at no point of the
\* action, and after no failure of it, are there embeddings without their
\* resource, and a failure leaves a resource that existed in place.
C14_DeleteRemovesEmbeddingsThenResource ==
    kOp.name = "deleteResourceAction" =>
        /\ (kPc = "returned" /\ kResult.success) =>
              /\ kOp.id \notin listResources(kResources)
              /\ kEmbeddings[kOp.id] = << >>
        /\ \A id \in ResourceIds :
              kEmbeddings[id] # << >> => kResources[id].present
        /\ (kPc = "returned" /\ ~kResult.success
                /\ kBefore.resources[kOp.id].present) =>
              kResources[kOp.id].present

C14_Witness ==
    /\ kOp.name = "deleteResourceAction"
    /\ kPc = "returned"
    /\ kResult.success
    /\ kBefore.resources[kOp.id].present
    /\ Len(kBefore.embeddings[kOp.id]) = 2
    /\ kEmbeddings[kOp.id] = << >>
    /\ ~kResources[kOp.id].present

\* C15: after updateResourceAction(id, content) returns success the resource
\* holds the new content and the embeddings stored for id are exactly one
\* row per chunk of the new content, none of the previous content's rows
\* remaining.
C15_UpdateReplacesEmbeddings ==
    (kOp.name = "updateResourceAction" /\ kPc = "returned" /\ kResult.success) =>
        /\ kResources[kOp.id] = [present |-> TRUE, content |-> kOp.content]
        /\ RowContents(kEmbeddings[kOp.id]) = chunkOdooKnowledge(kOp.content)

C15_Witness ==
    /\ kOp.name = "updateResourceAction"
    /\ kPc = "returned"
    /\ kResult.success
    /\ kBefore.resources[kOp.id].content = <<"long">>
    /\ Len(kBefore.embeddings[kOp.id]) = 2
    /\ kOp.content = <<"beta", " ", "alpha">>
    /\ RowContents(kEmbeddings[kOp.id]) = <<"beta", "alpha">>

(***************************************************************************)
(* Properties of the knowledge search, checked under KSearchSpec           *)
(***************************************************************************)
KSearchSucceeded == ksPc = "returned" /\ ksResult.success

\* the scores of the answer that are not below the threshold, in order
ScoresAtLeast(answer, threshold) ==
    LET NotBelow(entry) == ~(entry._score < threshold) IN
    LET kept == SelectSeq(answer, NotBelow) IN
    [i \in 1..Len(kept) |-> kept[i]._score]

\* C16: searchKnowledgeAction(query, limit, threshold) returns at most limit
\* results, each with confidence >= threshold, and they are the first limit
\* entries, in unchanged order, of the vector-search answer (asked for
\* 2*limit candidates) after removing the entries scored below threshold.
C16_AtMostLimitAboveThresholdInOrder ==
    LET limit == LimitOf(ksInput)
        threshold == ThresholdOf(ksInput)
        surviving == ScoresAtLeast(ksAnswer, threshold)
        confidences == [i \in 1..Len(ksResult.results) |->
                           ksResult.results[i].confidence]
    IN  /\ ksPc \in {"await_search", "returned"} /\ ksRequested # 0
            => ksRequested = 2 * limit
        /\ KSearchSucceeded =>
              /\ Len(ksAnswer) <= 2 * limit
              /\ Len(confidences) <= limit
              /\ \A i \in 1..Len(confidences) : confidences[i] >= threshold
              /\ Len(confidences) = (IF Len(surviving) < limit
                                     THEN Len(surviving) ELSE limit)
              /\ \A i \in 1..Len(confidences) : confidences[i] = surviving[i]

C16_Witness ==
    /\ KSearchSucceeded
    /\ ksInput.limit = Given(1)
    /\ ksInput.threshold = Given(7)
    /\ Len(ksAnswer) = 2
    /\ ksAnswer[1]._score = 7
    /\ ksAnswer[2]._score = 7
    /\ Len(ksResult.results) = 1
    /\ ksResult.results[1].confidence = 7

\* C17: every result of a knowledge search carries the text of the matched
\* chunk as content and the id of its source resource as resource_id
\* (resourceId in the tool's output), both defined and taken from the
\* matched embedding row.
C17_ResultsCarryContentAndResource ==
    KSearchSucceeded =>
        \A i \in 1..Len(ksResult.results) :
            LET row == ksTable[ksAnswer[i]._id] IN
            /\ ksResult.results[i].content = [defined |-> TRUE, value |-> row.content]
            /\ ksResult.results[i].resource_id =
                  [defined |-> TRUE, value |-> row.resource_id]
            /\ {"content", "resourceId"} \subseteq ksTool.results[i].keys

(***************************************************************************)
(* Properties of the MCP route handler, checked under McpSpec              *)
(***************************************************************************)
\* C18: the set of tools the MCP route handler registers equals the
\* documented set {searchKnowledge, connectToOdoo, getModelFields,
\* createRecords, deleteRecord, smartSearch, updateRecord}, every registered
\* tool has a capabilities entry under its name, and no tool that adds,
\* updates or deletes knowledge resources is registered.
C18_RegisteredToolsAreTheDocumentedOnes ==
    mPc = "serving" =>
        /\ mTools = DocumentedTools
        /\ mTools \subseteq CapabilityKeys
        /\ mTools \cap KnowledgeWriteActions = {}
        /\ \A i \in 1..Len(mRequests) :
              mRequests[i].method = "tools/list" =>
                  mRequests[i].tools = DocumentedTools

(***************************************************************************)
(* Properties of the recursive variant, checked under ComplexSpec          *)
(***************************************************************************)
\* a group whose conditions are M >= 2 nested groups
HasNestedGroups(g) ==
    /\ "conditions" \in DOMAIN g
    /\ Len(g.conditions) >= 2
    /\ \A i \in 1..Len(g.conditions) : "logic" \in DOMAIN g.conditions[i]

\* the group and every group nested in it, at any depth
RECURSIVE GroupsWithin(_)
GroupsWithin(g) ==
    {g} \cup
    (IF "conditions" \in DOMAIN g
     THEN UNION { IF "logic" \in DOMAIN g.conditions[i]
                  THEN GroupsWithin(g.conditions[i]) ELSE {} :
                  i \in 1..Len(g.conditions) }
     ELSE {})

\* M-1 '|' for OR, one '!' for NOT, nothing for AND
LevelMarkers(logic, m) ==
    CASE logic = "OR"  -> [i \in 1..(m - 1) |-> [kind |-> "marker", sym |-> "|"]]
      [] logic = "NOT" -> << [kind |-> "marker", sym |-> "!"] >>
      [] OTHER         -> << >>

RECURSIVE InOrder(_)
InOrder(outputs) ==
    IF Len(outputs) = 0 THEN << >>
    ELSE InOrder(SubSeq(outputs, 1, Len(outputs) - 1)) \o outputs[Len(outputs)]

\* the markers of the level, then each sub-group's own output in input order
MarkersThenSubGroups(g) ==
    LevelMarkers(g.logic, Len(g.conditions))
    \o InOrder([i \in 1..Len(g.conditions) |->
                  convertComplexQueryToDomain(g.conditions[i])])

\* C20: in convertComplexQueryToDomain, a group of M >= 2 nested groups
\* compiles to the marker prefix of its level (M-1 '|' for OR, one '!' for
\* NOT, nothing for AND) followed by the sub-groups' own compiled outputs in
\* input order; the same holds for every such group at every depth, and the
\* result is flat: a sequence of markers and tuples only.
C20_NestedGroupsPrefixThenSubOutputs ==
    xPhase = "compiled" =>
        /\ HasNestedGroups(xGroup) => xDomain = MarkersThenSubGroups(xGroup)
        /\ \A g \in GroupsWithin(xGroup) :
              HasNestedGroups(g) =>
                  convertComplexQueryToDomain(g) = MarkersThenSubGroups(g)
        /\ \A i \in 1..Len(xDomain) : xDomain[i].kind \in {"marker", "tuple"}

C20_Witness ==
    /\ xPhase = "compiled"
    /\ xGroup.logic = "OR"
    /\ "conditions" \in DOMAIN xGroup
    /\ Len(xGroup.conditions) = 2
    /\ xGroup.conditions[1] =
          [logic |-> "NOT",
           conditions |-> << [logic |-> "OR", conditions |-> <<LeafA, LeafB>>],
                             [logic |-> "AND", conditions |-> <<LeafB>>] >>]
    /\ xGroup.conditions[2] =
          [logic |-> "OR",
           conditions |-> << [logic |-> "AND", conditions |-> <<LeafB>>],
                             [logic |-> "OR", conditions |-> <<LeafA, LeafB>>] >>]
    /\ Len(xDomain) = 11
    /\ xDomain[1].sym = "|"
    /\ xDomain[2].sym = "!"
    /\ xDomain[3].sym = "|"
    /\ xDomain[7].sym = "|"
    /\ xDomain[8].field = "country_id"

\* a group whose conditions array is present and holds leaf conditions only
IsLeafGroup(g) ==
    /\ "conditions" \in DOMAIN g
    /\ \A i \in 1..Len(g.conditions) :
          {"field", "operator", "value"} \subseteq DOMAIN g.conditions[i]

\* the group as the query object the production compiler is given
AsQuery(g) ==
    [logic |-> g.logic, hasConditions |-> "conditions" \in DOMAIN g,
     conditions |-> IF "conditions" \in DOMAIN g THEN g.conditions ELSE << >>]

\* C21: on every group whose conditions are all well-formed leaf conditions
\* (any logic, any length including 0 and 1) the recursive variant
\* convertComplexQueryToDomain returns the same output as the production
\* compiler convertQueryToDomain.
C21_RecursiveAgreesOnLeafGroups ==
    (xPhase = "compiled" /\ IsLeafGroup(xGroup))
        => xDomain = convertQueryToDomain(AsQuery(xGroup))

C21_Witness ==
    /\ xPhase = "compiled"
    /\ IsLeafGroup(xGroup)
    /\ xGroup.logic = "OR"
    /\ Len(xGroup.conditions) = 3
    /\ Len(xDomain) = 5
    /\ xDomain = convertQueryToDomain(AsQuery(xGroup))

\* the truth value of the boolean tree a group denotes: AND of its members,
\* OR of its members, or the negation of the AND of its members
RECURSIVE Denotes(_, _)
Denotes(g, truth) ==
    IF "field" \in DOMAIN g THEN truth[g]
    ELSE IF "conditions" \notin DOMAIN g THEN TRUE
    ELSE LET members == {Denotes(g.conditions[i], truth) : i \in 1..Len(g.conditions)}
         IN  IF Len(g.conditions) = 0 THEN TRUE
             ELSE IF g.logic = "OR" THEN TRUE \in members
             ELSE IF g.logic = "NOT" THEN FALSE \in members
             ELSE FALSE \notin members

\* a group whose conditions are nested groups
IsGroupOfGroups(g) ==
    /\ "conditions" \in DOMAIN g
    /\ Len(g.conditions) >= 1
    /\ \A i \in 1..Len(g.conditions) : "logic" \in DOMAIN g.conditions[i]

\* C22: for a group of nested groups compiled by convertComplexQueryToDomain
\* the emitted flat expression, evaluated by the prefix grammar, has for
\* every truth assignment of the leaf conditions the truth value of the
\* boolean tree the input denotes (OR over the AND sub-groups {a,b} and
\* {c,d} means (a AND b) OR (c AND d); a NOT group with one nested sub-group
\* means the negation of that sub-group).
C22_NestedOutputMeansTheTree ==
    (xPhase = "compiled" /\ IsGroupOfGroups(xGroup))
        => \A truth \in TruthAssignments :
              Matches(xDomain, truth) <=> Denotes(xGroup, truth)

(***************************************************************************)
(* Properties of the compiler on incomplete conditions, checked under      *)
(* LooseSpec                                                               *)
(***************************************************************************)
\* the component of a condition, or undefined when the condition lacks it
ComponentOrUndefined(c, name) ==
    IF name \in DOMAIN c THEN c[name] ELSE "undefined"

\* the query with every incomplete condition replaced by a complete one
Completed(q) ==
    [q EXCEPT !.conditions =
        [i \in 1..Len(q.conditions) |->
            IF IsComplete(q.conditions[i]) THEN q.conditions[i]
            ELSE [field |-> "country_id", operator |-> "=", value |-> "186"]]]

\* C23: a leaf condition that lacks field, operator or value is not rejected
\* by convertQueryToDomain: no error is raised and a 3-tuple is emitted at
\* that condition's position, its missing component undefined, all other
\* tuples and markers being as for a well-formed input.
C23_IncompleteConditionsPassThrough ==
    Compiled =>
        LET n == NumConds
            wellFormed == convertQueryToDomain(Completed(query))
            markers == Len(domain) - n
        IN  /\ Len(domain) = Len(wellFormed)
            /\ \A i \in 1..markers : domain[i] = wellFormed[i]
            /\ \A i \in 1..n :
                  /\ domain[markers + i].kind = "tuple"
                  /\ domain[markers + i].field =
                        ComponentOrUndefined(query.conditions[i], "field")
                  /\ domain[markers + i].operator =
                        ComponentOrUndefined(query.conditions[i], "operator")
                  /\ domain[markers + i].value =
                        ComponentOrUndefined(query.conditions[i], "value")
                  /\ IsComplete(query.conditions[i])
                        => domain[markers + i] = wellFormed[markers + i]

C23_Witness ==
    /\ Compiled
    /\ query.logic = "OR"
    /\ NumConds = 3
    /\ query.conditions[2] = [field |-> "country_id", operator |-> "="]
    /\ IsComplete(query.conditions[1])
    /\ IsComplete(query.conditions[3])
    /\ Len(domain) = 5
    /\ domain[4].value = "undefined"
    /\ domain[4].field = "country_id"
    /\ domain[5].value = "false"

(***************************************************************************)
(* Properties of the two search variants, checked under PairSpec           *)
(***************************************************************************)
\* C24: for the same input and the same sequence of remote responses or
\* failures, smart_search.execute and smartSearch issue the same remote
\* calls in the same order and produce the same payload, the MCP variant
\* only wrapping it as JSON text inside content[0].
C24_VariantsAgree ==
    /\ pRun.tool.calls = pRun.mcp.calls
    /\ pRun.tool.pc = pRun.mcp.pc
    /\ pRun.tool.pc = "returned" =>
          /\ DOMAIN pRun.tool.result = {"returned", "payload"}
          /\ DOMAIN pRun.mcp.result = {"returned", "content"}
          /\ Len(pRun.mcp.result.content) = 1
          /\ pRun.mcp.result.content[1].type = "text"
          /\ pRun.mcp.result.content[1].text = Stringify(pRun.tool.result.payload)

C24_Witness ==
    /\ pRun.tool.pc = "returned"
    /\ pRun.mcp.pc = "returned"
    /\ pInput.query.logic = "OR"
    /\ Len(pInput.query.conditions) = 2
    /\ Len(pRun.mcp.calls) = 2
    /\ pResponses = << [call |-> "search_count", ok |-> TRUE],
                       [call |-> "search_read", ok |-> TRUE] >>
    /\ pRun.tool.result.payload.success
    /\ Len(pRun.tool.result.payload.records) = 2
    /\ pRun.tool.result.payload.domain[3].value = "undefined"
    /\ pRun.mcp.result.content[1].text.json.domain[3].value = "null"
    /\ Len(pRun.mcp.result.content[1].text.json.records) = 2

(***************************************************************************)
(* Properties of the circuit breaker                                       *)
(***************************************************************************)
\* the step is caller c entering execute
Enters(c) == bCalls[c].pc # "in_flight" /\ bCalls'[c] # bCalls[c]

\* the step is the wrapped function of caller c settling
Settles(c) == bCalls[c].pc = "in_flight" /\ bCalls'[c].pc = "settled"

\* C25: once the recorded failures reach threshold the state is open, and
\* while the breaker is open and no more than timeout have passed since the
\* last recorded failure, every execute call rejects with
\* CIRCUIT_BREAKER_OPEN (503) without invoking the wrapped function and
\* without changing failures or lastFailureTime.  Checked under BreakerSpec.
C25_OpenBreakerRejects ==
    [][ /\ (bFailures' # bFailures /\ bFailures' >= Threshold) => bState' = "open"
        /\ \A c \in DOMAIN bCalls :
             ( /\ bState = "open"
               /\ bNow - bLastFailureTime <= Timeout
               /\ Enters(c) )
             => /\ bCalls'[c].pc = "settled"
                /\ bCalls'[c].result = "CIRCUIT_BREAKER_OPEN:503"
                /\ ~bCalls'[c].invoked
                /\ bFailures' = bFailures
                /\ bLastFailureTime' = bLastFailureTime
                /\ bState' = "open" ]_vars

C25_Witness ==
    /\ bState = "open"
    /\ bFailures = Threshold
    /\ bNow - bLastFailureTime = Timeout
    /\ \E c \in DOMAIN bCalls :
         /\ bCalls[c].pc = "settled"
         /\ bCalls[c].result = "CIRCUIT_BREAKER_OPEN:503"

C30_OneTrialAndNoStaleClose ==
    /\ [](bState = "half-open" =>
            Cardinality({ c \in DOMAIN bCalls :
                            /\ bCalls[c].pc = "in_flight"
                            /\ bCalls[c].admittedIn = "half-open" }) <= 1)
    /\ [][ \A c \in DOMAIN bCalls :
             (bCalls[c].stale /\ Settles(c))
             => /\ ~(bState # "closed" /\ bState' = "closed")
                /\ ~(bFailures > 0 /\ bFailures' = 0) ]_vars

(***************************************************************************)
(* Properties of withRetry, checked under RetrySpec                        *)
(***************************************************************************)
\* the number of calls of fn made so far
FnCalls == Cardinality({ i \in 1..Len(wLog) : wLog[i].call = "fn" })

RECURSIVE Power(_, _)
Power(b, n) == IF n = 0 THEN 1 ELSE b * Power(b, n - 1)

\* what precedes re-attempt k: onRetry(k, error of attempt k), if a callback
\* was given, and the delay
BeforeReattempt(k) ==
    (IF "onRetry" \in DOMAIN wOptions
     THEN << [call |-> "onRetry", attempt |-> k, error |-> wOutcomes[k]] >>
     ELSE << >>)
    \o << [call |-> "setTimeout",
           ms |-> IF exponentialBackoff THEN retryDelay * Power(2, k - 1)
                  ELSE retryDelay] >>

RECURSIVE ExpectedLog(_)
\* the calls up to and including the n-th call of fn
ExpectedLog(n) ==
    IF n = 0 THEN << >>
    ELSE IF n = 1 THEN << [call |-> "fn"] >>
    ELSE ExpectedLog(n - 1) \o BeforeReattempt(n - 1) \o << [call |-> "fn"] >>

C28_ChunkTextTerminates ==
    /\ (tPc = "loop" ~> tPc = "returned")
    /\ [][ tPc = "loop" =>
            /\ tEndIndex' > tStartIndex
            /\ tEndIndex' <= tStartIndex + tMaxChunkSize
            /\ tPc' = "loop" =>
                  /\ tStartIndex' > tStartIndex
                  /\ tStartIndex' <= tEndIndex'
            /\ tPc' = "returned" =>
                  /\ tEndIndex' = Len(TrimText(tText))
                  /\ tChunks' # << >>
                  /\ tChunks'[Len(tChunks')].endChar = Len(TrimText(tText))
                  /\ tChunks'[Len(tChunks')].startChar = tStartIndex ]_vars
    /\ [](tPc = "returned" /\ tChunks # << >> =>
            tChunks[Len(tChunks)].endChar = Len(TrimText(tText)))

C28_Witness ==
    /\ tPc = "returned"
    /\ tText = << " ", "a", " ", "a", "a" >>
    /\ tMaxChunkSize = 2
    /\ tOverlapSize = 3
    /\ tChunks = << TextChunk(<< "a" >>, 0, 2),
                    TextChunk(<< "a", "a" >>, 2, 4) >>

(***************************************************************************)
(* Properties of the concurrent server actions, checked under ConcSpec     *)
(***************************************************************************)
\* C29: under any interleaving of concurrently running addResourceAction,
\* updateResourceAction and deleteResourceAction calls, each a sequence of
\* separate mutations that may fail between steps, every stored embedding
\* row's resource_id refers to a resource that still exists, and the
\* embeddings stored for a resource all come from the chunks of one single
\* content version.
C29_EmbeddingsFollowTheirResource ==
    \A id \in ResourceIds :
       /\ cEmbeddings[id] # << >> => cResources[id].present
       /\ \E content \in ConcContents :
            \A i \in 1..Len(cEmbeddings[id]) :
               \E j \in 1..Len(chunkOdooKnowledge(content)) :
                  cEmbeddings[id][i].content = chunkOdooKnowledge(content)[j]

====
